---- MODULE Spec2Model ----
(***************************************************************************)
(* Model of the calendar engine (src/src/calendar.rs) and of the applet    *)
(* that drives it (src/src/app.rs) of next-meeting-for-cosmic.             *)
(*                                                                         *)
(* Time is counted in whole minutes.  Instants are integers; "now" of a    *)
(* fetch is the value of the clock when the source is queried.             *)
(***************************************************************************)
EXTENDS Integers, Sequences, FiniteSets, TLC

VARIABLES
    \* ---- harness of the pure functions -------------------------------
    pureIn,        \* the arguments of the call
    pureOut,       \* [done |-> BOOLEAN, value |-> result]
    \* ---- one call into the engine ------------------------------------
    pc,            \* position of the running engine function
    call,          \* [op, enabled_uids, limit] of the running call
    localZone,     \* the zone chrono::Local resolves to
    clock,         \* wall clock, minutes
    source_uids,   \* remaining sources of the loop (a sequence)
    all_meetings,  \* Vec<Meeting> accumulated by get_meetings_from_dbus
    result,        \* the value returned to the caller
    calendars,     \* Vec<CalendarInfo> built by get_calendars_from_dbus
    calendar_info, \* calendars opened by watch_calendar_changes
    watchers,      \* running watch_single_calendar tasks
    log,           \* what was done on the bus (history)
    \* ---- the applet (AppModel) ---------------------------------------
    config,              \* Config: enabled_calendar_uids, upcoming_events_count,
                         \* auto_refresh_enabled
    available_calendars, \* Vec<CalendarInfo>
    upcoming_meetings,   \* Vec<Meeting>
    is_refreshing,
    has_loaded_meetings,
    tasks,               \* the Tasks returned by init and update, not yet finished
    app_queried,         \* sources the applet's latest finished fetch queried
                         \* (history)
    \* ---- the watchers and their channels -----------------------------
    w_pc,          \* position of each watcher loop
    w_sig,         \* the bus signal each watcher received last
    chan,          \* signals queued in each tokio mpsc channel
    receiver,      \* whether each channel's receiver still exists
    fwd_pc,        \* position of each subscription's forwarding loop
    outbox,        \* messages queued in each subscription's iced channel
    signals,       \* bus signals emitted so far
    owed,          \* a PropertiesChanged signal was seen and no CalendarChanged
                   \* has been handled since (history)
    full_drops,    \* channels a try_send found full (history)
    detached,      \* listener tasks of dropped subscriptions, still running
    \* ---- the task of one manual refresh ------------------------------
    refresh_pc,    \* position of the task RefreshCalendars started
    ignored,       \* RefreshCalendars messages handled while is_refreshing
                   \* (history)
    \* ---- the popup ---------------------------------------------------
    popup,         \* Option<Id>: the open popup
    current_page,  \* PopupPage
    next_id,       \* the next value of Id::unique()
    close_requests,\* popups the runtime will report as closed
    opened_on      \* the page the popup showed when it was last opened (history)

pureVars == <<pureIn, pureOut>>
engineVars == <<pc, call, localZone, clock, source_uids, all_meetings, result,
                calendars, calendar_info, watchers, log>>
appVars == <<config, available_calendars, upcoming_meetings, is_refreshing,
             has_loaded_meetings, tasks, app_queried>>
watchVars == <<w_pc, w_sig, chan, receiver, fwd_pc, outbox, signals, owed,
               full_drops, detached>>
refreshVars == <<refresh_pc, ignored>>
popupVars == <<popup, current_page, next_id, close_requests, opened_on>>
uiVars == <<refreshVars, popupVars>>
vars == <<pureVars, engineVars, appVars, watchVars, uiVars>>

----------------------------------------------------------------------------
\* Bounds of the model

\* instants of the pure-function harness range over 0..MaxT
MaxT == 3
\* the limit argument of get_upcoming_meetings ranges over 0..MaxLimit
MaxLimit == 2
\* the clock advances at most this many minutes during one call
MaxTicks == 1

\* the pure-function harness at rest
PureIdle == [fn |-> "none"]
PureNoResult == [done |-> FALSE, value |-> FALSE]

\* the applet at rest
AppIdle ==
    /\ config = [enabled_calendar_uids |-> {}, upcoming_events_count |-> 0,
                 auto_refresh_enabled |-> FALSE]
    /\ available_calendars = <<>>
    /\ upcoming_meetings = <<>>
    /\ is_refreshing = FALSE
    /\ has_loaded_meetings = FALSE
    /\ tasks = {}
    /\ app_queried = {}

\* no watcher started
WatchIdle ==
    /\ w_pc = <<>>
    /\ w_sig = <<>>
    /\ chan = <<>>
    /\ receiver = <<>>
    /\ fwd_pc = <<>>
    /\ outbox = <<>>
    /\ signals = 0
    /\ owed = FALSE
    /\ full_drops = {}
    /\ detached = <<>>

\* no refresh task, no popup
NoPopup == 0
RefreshIdle == refresh_pc = "none" /\ ignored = 0
PopupIdle ==
    /\ popup = NoPopup
    /\ current_page = "Main"
    /\ next_id = 1
    /\ close_requests = {}
    /\ opened_on = "none"
UiIdle == RefreshIdle /\ PopupIdle

----------------------------------------------------------------------------
\* Meeting Filter (calendar.rs)

\* a plausible slip: the window start compared with >= instead of >
should_include_meeting_inclusive(start, end, now, query_start) ==
    LET is_future == start > now
        is_in_progress == start <= now /\ start >= query_start /\ end > now
    IN  (is_future \/ is_in_progress) /\ start < end

should_include_meeting(start, end, now, query_start) ==
    LET is_future == start > now
        is_in_progress == start <= now /\ start > query_start /\ end > now
    IN  (is_future \/ is_in_progress) /\ start < end

----------------------------------------------------------------------------
\* Time and the local zone (chrono::Local)

MinutesPerHour == 60 * 1
MinutesPerDay == 24 * 60
\* the query window of get_meetings_from_dbus: 30 minutes back, 30 days ahead
QueryBack == 30 * 1
QueryAhead == 30 * MinutesPerDay

\* The zone Local resolves to: one with a fixed offset, or one whose daylight
\* saving time ends (clocks go back one hour) at the instant DstEnd.
Zones == {"fixed", "dst"}
DstEnd == 3 * MinutesPerHour
StdOffset == 0 - (5 * MinutesPerHour)

UtcOffset(zone, t) ==
    IF zone = "dst" /\ t < DstEnd THEN StdOffset + MinutesPerHour ELSE StdOffset

\* start.format("%Y%m%dT%H%M%S") of a DateTime<Local>: the wall-clock reading,
\* without the offset
FormatLocal(zone, t) == t + UtcOffset(zone, t)

----------------------------------------------------------------------------
\* Sources known to the source manager (GetManagedObjects)

\* display_name "" stands for a Data block without a DisplayName= line
Objects == {
    [uid |-> "work", has_calendar |-> TRUE,  backend |-> "caldav",
     display_name |-> "Work"],
    [uid |-> "home", has_calendar |-> TRUE,  backend |-> "local",
     display_name |-> ""],
    [uid |-> "bday", has_calendar |-> TRUE,  backend |-> "birthdays",
     display_name |-> "Birthdays"],
    [uid |-> "addr", has_calendar |-> FALSE, backend |-> "none",
     display_name |-> "Contacts"] }

ObjectOf(uid) == CHOOSE o \in Objects : o.uid = uid

AllUids == {o.uid : o \in Objects}
CalendarUids == {o.uid : o \in {x \in Objects : x.has_calendar}}

\* sequences without repetition over S: the orders a HashMap may iterate in
Orders(S) ==
    {f \in [1..Cardinality(S) -> S] : \A i, j \in 1..Cardinality(S) : f[i] = f[j] => i = j}

\* Vec::retain
RECURSIVE Retain(_, _)
Retain(seq, keep) ==
    IF seq = <<>> THEN <<>>
    ELSE IF Head(seq) \in keep THEN <<Head(seq)>> \o Retain(Tail(seq), keep)
    ELSE Retain(Tail(seq), keep)

\* a plausible slip: the enabled filter is not applied
SelectSourcesAll(order, enabled_uids) == order

\* "if !enabled_uids.is_empty() { source_uids.retain(|uid| enabled_uids.contains(uid)) }"
SelectSources(order, enabled_uids) ==
    IF enabled_uids # {} THEN Retain(order, enabled_uids) ELSE order

----------------------------------------------------------------------------
\* Calendar records (the strings GetObjectList returns, one VEVENT each)

NoTime == 0 - 999999
NoRule == [interval |-> 0, count |-> 0]
Unbounded == 0 - 1

\* at most this many occurrences are expanded per record: expand_dates(local_tz, 100)
ExpandLimit == 100

Rec(uid, dtstart, dtend, rrule, exdates, rid) ==
    [uid |-> uid, dtstart |-> dtstart, dtend |-> dtend, rrule |-> rrule,
     exdates |-> exdates, recurrence_id |-> rid, parses |-> TRUE]

Daily(count) == [interval |-> MinutesPerDay, count |-> count]
Weekly(count) == [interval |-> 7 * MinutesPerDay, count |-> count]
Hourly(count) == [interval |-> MinutesPerHour, count |-> count]

\* a meeting in one hour
R_single == Rec("a", 60, 120, NoRule, {}, NoTime)
\* a meeting that began ten minutes ago
R_inprog == Rec("b", 0 - 10, 50, NoRule, {}, NoTime)
\* a meeting the service lists twice
R_twice == Rec("g", 70, 100, NoRule, {}, NoTime)
\* a meeting that began exactly 30 minutes before the clock's first reading
R_edge == Rec("c", 0 - QueryBack, 45, NoRule, {}, NoTime)
\* a daily series of three, none excluded
R_master == Rec("d", 30, 60, Daily(3), {}, NoTime)
\* the second occurrence of R_master, materialized separately by the service
R_override == Rec("d", 30 + MinutesPerDay, 75 + MinutesPerDay, NoRule, {},
                  30 + MinutesPerDay)
\* a daily series of three with its second occurrence excluded
R_exdate == Rec("e", 40, 70, Daily(3), {40 + MinutesPerDay}, NoTime)
\* an unbounded daily series that began 200 days ago
R_old == Rec("o", 90 - (200 * MinutesPerDay), 120 - (200 * MinutesPerDay),
             Daily(Unbounded), {}, NoTime)
\* an unbounded weekly series that began 98 weeks ago
R_long == Rec("w", 100 - (98 * 7 * MinutesPerDay), 130 - (98 * 7 * MinutesPerDay),
              Weekly(Unbounded), {}, NoTime)
\* an hourly series of three, given in UTC, around the end of daylight saving
R_hourly == Rec("h", DstEnd - 90, DstEnd - 70, Hourly(3), {}, NoTime)
\* a modified instance that still carries the series' RRULE
R_rid_rrule == Rec("r", 200, 230, Daily(2), {}, 200)
\* a yearly all-day entry of the birthdays calendar
R_birthday == Rec("y", 5 * MinutesPerDay, 6 * MinutesPerDay, NoRule, {}, NoTime)

\* a series of two, five weeks apart, that begins in one hour: its second
\* occurrence begins 35 days from now
R_fiveweekly == Rec("k", 60, 90, [interval |-> 5 * 7 * MinutesPerDay, count |-> 2],
                    {}, NoTime)
\* a VEVENT without a UID line
R_nouid == Rec("", 80, 110, NoRule, {}, NoTime)
\* a VEVENT without a DTSTART line
R_nostart == Rec("n", NoTime, 150, NoRule, {}, NoTime)
\* a string ICalendar::parse rejects
R_garbled == [Rec("x", 85, 115, NoRule, {}, NoTime) EXCEPT !.parses = FALSE]

\* what a source may answer to GetObjectList
Replies(uid) ==
    CASE uid = "work" -> {<<R_inprog, R_single>>, <<R_master, R_override>>,
                          <<R_old>>, <<R_hourly>>,
                          <<R_garbled, R_nostart, R_nouid, R_single>>}
      [] uid = "home" -> {<<R_twice, R_twice>>, <<R_exdate, R_edge>>,
                          <<R_long>>, <<R_rid_rrule>>, <<R_fiveweekly>>}
      [] OTHER -> {<<R_birthday>>}

\* into_iter().take(n)
Take(seq, n) == SubSeq(seq, 1, IF Len(seq) < n THEN Len(seq) ELSE n)
Range(seq) == {seq[i] : i \in 1..Len(seq)}
Count(seq, x) == Cardinality({i \in 1..Len(seq) : seq[i] = x})

\* the occurrences of the record's rule in order: DTSTART plus a multiple of the
\* interval, COUNT of them when the rule has one, those listed in EXDATE
\* dropped, the first `limit` of what remains
RuleDates(rec, limit) ==
    LET n == IF rec.rrule.count = Unbounded
             THEN limit + Cardinality(rec.exdates)
             ELSE rec.rrule.count
        all == [k \in 1..n |->
                   [start |-> rec.dtstart + ((k - 1) * rec.rrule.interval),
                    end |-> rec.dtend + ((k - 1) * rec.rrule.interval)]]
        NotExcluded(ev) == ev.start \notin rec.exdates
    IN  Take(SelectSeq(all, NotExcluded), limit)

\* a plausible slip: the occurrences all keep the master's DTEND
ExpandDatesFixedEnd(rec) ==
    IF rec.dtstart = NoTime THEN <<>>
    ELSE IF rec.rrule = NoRule THEN <<[start |-> rec.dtstart, end |-> rec.dtend]>>
    ELSE LET ds == RuleDates(rec, ExpandLimit)
         IN  [i \in 1..Len(ds) |-> [start |-> ds[i].start, end |-> rec.dtend]]

\* calendar.expand_dates(local_tz, 100) on a calendar holding this one record
ExpandDates(rec) ==
    IF rec.dtstart = NoTime THEN <<>>
    ELSE IF rec.rrule = NoRule THEN <<[start |-> rec.dtstart, end |-> rec.dtend]>>
    ELSE RuleDates(rec, ExpandLimit)

----------------------------------------------------------------------------
\* Building the meetings of one source (get_meetings_from_dbus, step 4)

\* "Generate unique ID for recurring instances": the UID, suffixed with the
\* formatted local start when the component has an RRULE entry
MeetingUid(rec, zone, start) ==
    IF rec.rrule # NoRule
    THEN [base |-> rec.uid, suffixed |-> TRUE, stamp |-> FormatLocal(zone, start)]
    ELSE [base |-> rec.uid, suffixed |-> FALSE, stamp |-> 0]

MakeMeeting(rec, ev, source_uid, zone) ==
    [uid |-> MeetingUid(rec, zone, ev.start), start |-> ev.start, end |-> ev.end,
     calendar_uid |-> source_uid]

\* "if !should_include_meeting(start, end, now, query_start) { continue; }"
KeepIncluded(evs, now) ==
    LET Included(ev) == should_include_meeting(ev.start, ev.end, now, now - QueryBack)
    IN  SelectSeq(evs, Included)

\* the meetings one record contributes: parse, expand, filter, build
RecordMeetings(rec, source_uid, zone, now) ==
    IF ~rec.parses THEN <<>>
    ELSE LET evs == KeepIncluded(ExpandDates(rec), now)
         IN  [i \in 1..Len(evs) |-> MakeMeeting(rec, evs[i], source_uid, zone)]

\* "for ics_object in ics_objects"
RECURSIVE ReplyMeetings(_, _, _, _)
ReplyMeetings(reply, source_uid, zone, now) ==
    IF reply = <<>> THEN <<>>
    ELSE RecordMeetings(Head(reply), source_uid, zone, now)
         \o ReplyMeetings(Tail(reply), source_uid, zone, now)

\* insertion of m after the last element that does not start later (stable)
RECURSIVE InsertByStart(_, _)
InsertByStart(sorted, m) ==
    IF sorted = <<>> THEN <<m>>
    ELSE IF Head(sorted).start <= m.start
         THEN <<Head(sorted)>> \o InsertByStart(Tail(sorted), m)
         ELSE <<m>> \o sorted

RECURSIVE SortFrom(_, _)
SortFrom(sorted, rest) ==
    IF rest = <<>> THEN sorted
    ELSE SortFrom(InsertByStart(sorted, Head(rest)), Tail(rest))

\* a plausible slip: the meetings are returned in the order they were collected
SortByStartMissing(meetings) == meetings

\* all_meetings.sort_by_key(|m| m.start): a stable sort
SortByStart(meetings) == SortFrom(<<>>, meetings)

\* a plausible slip: the limit is used as given, without the minimum of one
EffectiveLimitRaw(limit) == limit

\* limit.max(1)
EffectiveLimit(limit) == IF limit > 1 THEN limit ELSE 1

----------------------------------------------------------------------------
\* Source discovery (get_calendars_from_dbus)

\* String::cmp on the display names of the model: byte order, capitals first
NameRank(name) ==
    CASE name = "Birthdays" -> 10
      [] name = "Contacts" -> 20
      [] name = "Work" -> 30
      [] name = "[Calendar] Shared" -> 35
      [] name = "addr" -> 40
      [] name = "bday" -> 50
      [] name = "home" -> 60
      [] name = "work" -> 70
      [] OTHER -> 80

\* parse_display_name(&data).unwrap_or_else(|| uid.clone())
DisplayName(o) == IF o.display_name # "" THEN o.display_name ELSE o.uid

MakeCalendarInfo(uid) ==
    [uid |-> uid, display_name |-> DisplayName(ObjectOf(uid)),
     backend |-> ObjectOf(uid).backend, last_synced |-> FALSE]

RECURSIVE InsertByName(_, _)
InsertByName(sorted, c) ==
    IF sorted = <<>> THEN <<c>>
    ELSE IF NameRank(Head(sorted).display_name) <= NameRank(c.display_name)
         THEN <<Head(sorted)>> \o InsertByName(Tail(sorted), c)
         ELSE <<c>> \o sorted

RECURSIVE SortByNameFrom(_, _)
SortByNameFrom(sorted, rest) ==
    IF rest = <<>> THEN sorted
    ELSE SortByNameFrom(InsertByName(sorted, Head(rest)), Tail(rest))

\* calendars.sort_by(|a, b| a.display_name.cmp(&b.display_name))
SortByName(cals) == SortByNameFrom(<<>>, cals)

\* CalendarInfo::is_meeting_source
is_meeting_source(c) == c.backend \notin {"contacts", "weather", "birthdays"}

----------------------------------------------------------------------------
\* One call into the engine, step by step

EnabledChoices == {{}, {"work"}, {"work", "bday"}, {"home", "gone"}, {"gone"}}

\* fault: why the call returned early; visited: the sources in the order the
\* loop took them; opened / queried / refreshed: the sources OpenCalendar,
\* GetObjectList and Refresh were called for; failed: the sources skipped;
\* served: the replies to GetObjectList with the clock reading used for them
NoLog == [fault |-> "none", visited |-> <<>>, opened |-> {}, queried |-> {},
          failed |-> {}, refreshed |-> {}, served |-> {}]

Init ==
    /\ pureIn = PureIdle
    /\ pureOut = PureNoResult
    /\ pc = "idle"
    /\ call = [op |-> "none", enabled_uids |-> {}, limit |-> 0]
    /\ localZone \in Zones
    /\ clock = 0
    /\ source_uids = <<>>
    /\ all_meetings = <<>>
    /\ result = <<>>
    /\ calendars = <<>>
    /\ calendar_info = <<>>
    /\ watchers = {}
    /\ log = NoLog
    /\ AppIdle
    /\ WatchIdle
    /\ UiIdle

UsesSourceLoop == call.op \in {"get_upcoming_meetings", "refresh_calendars",
                               "watch_calendar_changes"}

CallGetUpcomingMeetings ==
    /\ pc = "idle"
    /\ \E enabled \in EnabledChoices, limit \in 0..MaxLimit :
          call' = [op |-> "get_upcoming_meetings", enabled_uids |-> enabled,
                   limit |-> limit]
    /\ pc' = "connect"
    /\ UNCHANGED <<uiVars, pureVars, appVars, watchVars, localZone, clock, source_uids, all_meetings, result,
                   calendars, calendar_info, watchers, log>>

CallRefreshCalendars ==
    /\ pc = "idle"
    /\ \E enabled \in EnabledChoices :
          call' = [op |-> "refresh_calendars", enabled_uids |-> enabled, limit |-> 0]
    /\ pc' = "connect"
    /\ UNCHANGED <<uiVars, pureVars, appVars, watchVars, localZone, clock, source_uids, all_meetings, result,
                   calendars, calendar_info, watchers, log>>

CallWatchCalendarChanges ==
    /\ pc = "idle"
    /\ \E enabled \in EnabledChoices :
          call' = [op |-> "watch_calendar_changes", enabled_uids |-> enabled,
                   limit |-> 0]
    /\ pc' = "connect"
    /\ UNCHANGED <<uiVars, pureVars, appVars, watchVars, localZone, clock, source_uids, all_meetings, result,
                   calendars, calendar_info, watchers, log>>

CallGetAvailableCalendars ==
    /\ pc = "idle"
    /\ call' = [op |-> "get_available_calendars", enabled_uids |-> {}, limit |-> 0]
    /\ pc' = "connect"
    /\ UNCHANGED <<uiVars, pureVars, appVars, watchVars, localZone, clock, source_uids, all_meetings, result,
                   calendars, calendar_info, watchers, log>>

\* the function returns: nothing more is done on the bus
Return(fault, value) ==
    /\ pc' = "done"
    /\ result' = value
    /\ log' = [log EXCEPT !.fault = fault]

\* std::env::var("DEBUG_NO_CALENDARS").is_ok()
DebugNoCalendars ==
    /\ pc = "connect"
    /\ call.op \in {"get_upcoming_meetings", "get_available_calendars"}
    /\ Return("debug_no_calendars", <<>>)
    /\ UNCHANGED <<uiVars, pureVars, appVars, watchVars, call, localZone, clock, source_uids, all_meetings,
                   calendars, calendar_info, watchers>>

\* a plausible slip: the failed connection is noted and the call goes on
SessionFailsIgnored ==
    /\ pc = "connect"
    /\ pc' = "enumerate"
    /\ log' = [log EXCEPT !.fault = "session"]
    /\ UNCHANGED <<uiVars, pureVars, appVars, watchVars, call, localZone, clock, source_uids, all_meetings,
                   result, calendars, calendar_info, watchers>>

\* Connection::session() fails
SessionFails ==
    /\ pc = "connect"
    /\ Return("session", <<>>)
    /\ UNCHANGED <<uiVars, pureVars, appVars, watchVars, call, localZone, clock, source_uids, all_meetings,
                   calendars, calendar_info, watchers>>

SessionOk ==
    /\ pc = "connect"
    /\ pc' = "enumerate"
    /\ UNCHANGED <<uiVars, pureVars, appVars, watchVars, call, localZone, clock, source_uids, all_meetings,
                   result, calendars, calendar_info, watchers, log>>

\* get_calendar_source_uids / get_calendars_from_dbus return None: the proxy, the
\* GetManagedObjects call or the decoding of its reply failed
EnumerateFails ==
    /\ pc = "enumerate"
    /\ Return("enumerate", <<>>)
    /\ UNCHANGED <<uiVars, pureVars, appVars, watchVars, call, localZone, clock, source_uids, all_meetings,
                   calendars, calendar_info, watchers>>

\* get_calendar_source_uids: the sources with a UID and a [Calendar] section, in
\* the order of the reply's map, then the enabled filter
EnumerateOk ==
    /\ pc = "enumerate"
    /\ UsesSourceLoop
    /\ \E order \in Orders(CalendarUids) :
          source_uids' = SelectSources(order, call.enabled_uids)
    /\ pc' = "factory"
    /\ UNCHANGED <<uiVars, pureVars, appVars, watchVars, call, localZone, clock, all_meetings, result,
                   calendars, calendar_info, watchers, log>>

\* get_calendars_from_dbus: one CalendarInfo per source with a [Calendar] section
GacEnumerateOk ==
    /\ pc = "enumerate"
    /\ call.op = "get_available_calendars"
    /\ \E order \in Orders(CalendarUids) :
          calendars' = [i \in 1..Len(order) |-> MakeCalendarInfo(order[i])]
    /\ pc' = "factory"
    /\ UNCHANGED <<uiVars, pureVars, appVars, watchVars, call, localZone, clock, source_uids, all_meetings,
                   result, calendar_info, watchers, log>>

\* the CalendarFactory proxy cannot be created
FactoryFails ==
    /\ pc = "factory"
    /\ UsesSourceLoop
    /\ Return("factory", <<>>)
    /\ UNCHANGED <<uiVars, pureVars, appVars, watchVars, call, localZone, clock, source_uids, all_meetings,
                   calendars, calendar_info, watchers>>

\* get_calendars_from_dbus without the factory: no Revision is read, the list
\* is sorted and returned
GacFactoryFails ==
    /\ pc = "factory"
    /\ call.op = "get_available_calendars"
    /\ calendars' = SortByName(calendars)
    /\ Return("factory", calendars')
    /\ UNCHANGED <<uiVars, pureVars, appVars, watchVars, call, localZone, clock, source_uids, all_meetings,
                   calendar_info, watchers>>

FactoryOk ==
    /\ pc = "factory"
    /\ pc' = "loop"
    /\ UNCHANGED <<uiVars, pureVars, appVars, watchVars, call, localZone, clock, source_uids, all_meetings,
                   result, calendars, calendar_info, watchers, log>>

\* time passes while a remote call is awaited
Tick ==
    /\ pc = "loop"
    /\ call.op = "get_upcoming_meetings"
    /\ clock < MaxTicks
    /\ clock' = clock + 1
    /\ UNCHANGED <<uiVars, pureVars, appVars, watchVars, pc, call, localZone, source_uids, all_meetings,
                   result, calendars, calendar_info, watchers, log>>

\* the ways one source can fail in get_meetings_from_dbus: OpenCalendar errors
\* or its reply does not decode, the calendar proxy cannot be built,
\* GetObjectList errors or its reply does not decode
OpenFailures == {"open_error", "open_undecodable", "proxy_error"}
QueryFailures == {"query_error", "query_undecodable"}

\* a plausible slip: a failing source ends the loop (break instead of continue)
AfterFailureBreak(rest) == <<>>

\* "Err(_) => continue": the loop goes on with the remaining sources
AfterFailure(rest) == rest

\* one iteration of "for source_uid in source_uids" that ends in a continue
GumSourceFails ==
    /\ pc = "loop"
    /\ call.op = "get_upcoming_meetings"
    /\ source_uids # <<>>
    /\ LET uid == Head(source_uids)
       IN  \E kind \in OpenFailures \cup QueryFailures :
              log' = [log EXCEPT !.visited = Append(@, uid),
                                 !.opened = @ \cup {uid},
                                 !.queried = IF kind \in QueryFailures
                                             THEN @ \cup {uid} ELSE @,
                                 !.failed = @ \cup {uid}]
    /\ source_uids' = AfterFailure(Tail(source_uids))
    /\ UNCHANGED <<uiVars, pureVars, appVars, watchVars, pc, call, localZone, clock, all_meetings, result,
                   calendars, calendar_info, watchers>>

\* one iteration that opens the calendar, queries it and parses the reply
GumSourceOk ==
    /\ pc = "loop"
    /\ call.op = "get_upcoming_meetings"
    /\ source_uids # <<>>
    /\ LET uid == Head(source_uids)
       IN  \E reply \in Replies(uid) :
              /\ all_meetings' =
                     all_meetings \o ReplyMeetings(reply, uid, localZone, clock)
              /\ log' = [log EXCEPT
                            !.visited = Append(@, uid),
                            !.opened = @ \cup {uid},
                            !.queried = @ \cup {uid},
                            !.served = @ \cup {[uid |-> uid, reply |-> reply,
                                                now |-> clock]}]
    /\ source_uids' = Tail(source_uids)
    /\ UNCHANGED <<uiVars, pureVars, appVars, watchVars, pc, call, localZone, clock, result, calendars,
                   calendar_info, watchers>>

\* "Sort and return up to `limit` meetings"; limit is limit.max(1) of the caller
GumFinish ==
    /\ pc = "loop"
    /\ call.op = "get_upcoming_meetings"
    /\ source_uids = <<>>
    /\ all_meetings' = SortByStart(all_meetings)
    /\ result' = Take(all_meetings', EffectiveLimit(call.limit))
    /\ pc' = "done"
    /\ UNCHANGED <<uiVars, pureVars, appVars, watchVars, call, localZone, clock, source_uids, calendars,
                   calendar_info, watchers, log>>

\* a plausible slip: a calendar that cannot be opened ends the loop
RefreshSourceFailsBreak ==
    /\ pc = "loop"
    /\ call.op = "refresh_calendars"
    /\ source_uids # <<>>
    /\ log' = [log EXCEPT !.visited = Append(@, Head(source_uids)),
                          !.opened = @ \cup {Head(source_uids)},
                          !.failed = @ \cup {Head(source_uids)}]
    /\ source_uids' = <<>>
    /\ UNCHANGED <<uiVars, pureVars, appVars, watchVars, pc, call, localZone, clock, all_meetings, result,
                   calendars, calendar_info, watchers>>

\* refresh_calendars: the calendar cannot be opened, the loop continues
RefreshSourceFails ==
    /\ pc = "loop"
    /\ call.op = "refresh_calendars"
    /\ source_uids # <<>>
    /\ log' = [log EXCEPT !.visited = Append(@, Head(source_uids)),
                          !.opened = @ \cup {Head(source_uids)},
                          !.failed = @ \cup {Head(source_uids)}]
    /\ source_uids' = Tail(source_uids)
    /\ UNCHANGED <<uiVars, pureVars, appVars, watchVars, pc, call, localZone, clock, all_meetings, result,
                   calendars, calendar_info, watchers>>

\* refresh_calendars: Refresh is called, its outcome is ignored
RefreshSourceOk ==
    /\ pc = "loop"
    /\ call.op = "refresh_calendars"
    /\ source_uids # <<>>
    /\ log' = [log EXCEPT !.visited = Append(@, Head(source_uids)),
                          !.opened = @ \cup {Head(source_uids)},
                          !.refreshed = @ \cup {Head(source_uids)}]
    /\ source_uids' = Tail(source_uids)
    /\ UNCHANGED <<uiVars, pureVars, appVars, watchVars, pc, call, localZone, clock, all_meetings, result,
                   calendars, calendar_info, watchers>>

RefreshFinish ==
    /\ pc = "loop"
    /\ call.op = "refresh_calendars"
    /\ source_uids = <<>>
    /\ pc' = "done"
    /\ UNCHANGED <<uiVars, pureVars, appVars, watchVars, call, localZone, clock, source_uids, all_meetings,
                   result, calendars, calendar_info, watchers, log>>

\* watch_calendar_changes: OpenCalendar fails for this source
WatchOpenFails ==
    /\ pc = "loop"
    /\ call.op = "watch_calendar_changes"
    /\ source_uids # <<>>
    /\ log' = [log EXCEPT !.visited = Append(@, Head(source_uids)),
                          !.opened = @ \cup {Head(source_uids)},
                          !.failed = @ \cup {Head(source_uids)}]
    /\ source_uids' = Tail(source_uids)
    /\ UNCHANGED <<uiVars, pureVars, appVars, watchVars, pc, call, localZone, clock, all_meetings, result,
                   calendars, calendar_info, watchers>>

\* watch_calendar_changes: the (path, bus) pair of the source is collected
WatchOpenOk ==
    /\ pc = "loop"
    /\ call.op = "watch_calendar_changes"
    /\ source_uids # <<>>
    /\ calendar_info' = Append(calendar_info, Head(source_uids))
    /\ log' = [log EXCEPT !.visited = Append(@, Head(source_uids)),
                          !.opened = @ \cup {Head(source_uids)}]
    /\ source_uids' = Tail(source_uids)
    /\ UNCHANGED <<uiVars, pureVars, appVars, watchVars, pc, call, localZone, clock, all_meetings, result,
                   calendars, watchers>>

\* watch_calendar_changes: nothing to watch returns; otherwise one task per
\* calendar is spawned and the function waits for them
WatchSpawn ==
    /\ pc = "loop"
    /\ call.op = "watch_calendar_changes"
    /\ source_uids = <<>>
    /\ IF calendar_info = <<>>
       THEN pc' = "done" /\ watchers' = watchers
       ELSE /\ pc' = "watching"
            /\ watchers' = {calendar_info[i] : i \in 1..Len(calendar_info)}
    /\ UNCHANGED <<uiVars, pureVars, appVars, watchVars, call, localZone, clock, source_uids, all_meetings,
                   result, calendars, calendar_info, log>>

\* get_calendars_from_dbus: the Revision of each calendar that can be opened and
\* read becomes its last_synced; then the list is sorted by display name
GacRevisions ==
    /\ pc = "loop"
    /\ call.op = "get_available_calendars"
    /\ \E readable \in SUBSET {calendars[i].uid : i \in 1..Len(calendars)} :
          calendars' = SortByName(
              [i \in 1..Len(calendars) |->
                  [calendars[i] EXCEPT !.last_synced = (calendars[i].uid \in readable)]])
    /\ pc' = "done"
    /\ result' = calendars'
    /\ UNCHANGED <<uiVars, pureVars, appVars, watchVars, call, localZone, clock, source_uids, all_meetings,
                   calendar_info, watchers, log>>

Next ==
    \/ CallGetUpcomingMeetings
    \/ CallRefreshCalendars
    \/ CallWatchCalendarChanges
    \/ CallGetAvailableCalendars
    \/ DebugNoCalendars
    \/ SessionFails
    \/ SessionOk
    \/ EnumerateFails
    \/ EnumerateOk
    \/ GacEnumerateOk
    \/ FactoryFails
    \/ GacFactoryFails
    \/ FactoryOk
    \/ Tick
    \/ GumSourceFails
    \/ GumSourceOk
    \/ GumFinish
    \/ RefreshSourceFails
    \/ RefreshSourceOk
    \/ RefreshFinish
    \/ WatchOpenFails
    \/ WatchOpenOk
    \/ WatchSpawn
    \/ GacRevisions

Spec == Init /\ [][Next]_vars

----------------------------------------------------------------------------
\* Attendance (get_meetings_from_dbus: user_emails; parse_attendance_status_calcard)

\* the entry lists of the harness hold at most this many entries
MaxEntries == 2

\* a parameter, value or bus property that is not there
NoEmail == "<none>"

\* str::to_lowercase on the addresses of the model
ToLower(s) == IF s = "ME@X" THEN "me@x" ELSE s

\* e.trim().is_empty()
Blank(s) == s \in {"", " "}

SeqsUpTo(S, n) == UNION {[1..k -> S] : k \in 0..n}

\* a plausible slip: the calendar's address is added even when it is empty
UserEmailsKeepEmpty(additional_emails, cal_email) ==
    LET NonBlank(e) == ~Blank(e)
        kept == SelectSeq(additional_emails, NonBlank)
    IN  IF /\ cal_email # NoEmail
           /\ ~(\E i \in 1..Len(kept) : ToLower(kept[i]) = ToLower(cal_email))
        THEN Append(kept, cal_email)
        ELSE kept

\* "Combine CalEmailAddress with additional_emails for user identification"
UserEmails(additional_emails, cal_email) ==
    LET NonBlank(e) == ~Blank(e)
        kept == SelectSeq(additional_emails, NonBlank)
    IN  IF /\ cal_email # NoEmail
           /\ cal_email # ""
           /\ ~(\E i \in 1..Len(kept) : ToLower(kept[i]) = ToLower(cal_email))
        THEN Append(kept, cal_email)
        ELSE kept

\* one property line of a VEVENT: its name, its EMAIL parameter, the address of
\* its mailto: value, its PARTSTAT parameter
Entry(prop, email_param, mailto, partstat) ==
    [prop |-> prop, email_param |-> email_param, mailto |-> mailto,
     partstat |-> partstat]

NoPartstat == "<absent>"

Entries == {
    Entry("ATTENDEE", "ME@X", NoEmail, "ACCEPTED"),
    Entry("ATTENDEE", NoEmail, "me@x", "TENTATIVE"),
    Entry("ATTENDEE", "me@x", "other@x", "DECLINED"),
    Entry("ATTENDEE", NoEmail, "ME@X", "NEEDS-ACTION"),
    Entry("ATTENDEE", "me@x", NoEmail, "DELEGATED"),
    Entry("ATTENDEE", "me@x", NoEmail, NoPartstat),
    Entry("ATTENDEE", "other@x", NoEmail, "ACCEPTED"),
    Entry("ATTENDEE", "other@x", "me@x", "ACCEPTED"),
    Entry("ATTENDEE", NoEmail, NoEmail, "ACCEPTED"),
    Entry("ATTENDEE", "", NoEmail, "ACCEPTED"),
    Entry("ORGANIZER", "me@x", NoEmail, "ACCEPTED") }

\* "Extract email from parameters or value"
AttendeeEmail(entry) ==
    IF entry.email_param # NoEmail THEN ToLower(entry.email_param)
    ELSE IF entry.mailto # NoEmail THEN ToLower(entry.mailto)
    ELSE NoEmail

\* the match on ICalendarParticipationStatus
StatusOf(partstat) ==
    CASE partstat = "ACCEPTED" -> "Accepted"
      [] partstat = "TENTATIVE" -> "Tentative"
      [] partstat = "DECLINED" -> "Declined"
      [] partstat = "NEEDS-ACTION" -> "NeedsAction"
      [] OTHER -> "None"

\* the loop over the ATTENDEE entries: it returns from a user's entry that has
\* a PARTSTAT parameter and goes on otherwise
RECURSIVE AttendeeLoop(_, _)
AttendeeLoop(entries, user_emails_lower) ==
    IF entries = <<>> THEN "None"
    ELSE LET entry == Head(entries)
             is_user == /\ entry.prop = "ATTENDEE"
                        /\ AttendeeEmail(entry) # NoEmail
                        /\ AttendeeEmail(entry) \in user_emails_lower
         IN  IF is_user /\ entry.partstat # NoPartstat
             THEN StatusOf(entry.partstat)
             ELSE AttendeeLoop(Tail(entries), user_emails_lower)

parse_attendance_status_calcard(entries, user_emails) ==
    IF user_emails = <<>> THEN "None"
    ELSE AttendeeLoop(entries, {ToLower(user_emails[i]) : i \in 1..Len(user_emails)})

AdditionalEmailChoices == {<<>>, <<" ">>, <<"me@x">>, <<"", "other@x">>}
CalEmailChoices == {NoEmail, "", "ME@X"}

AttendanceInputs ==
    [fn : {"attendance_status"}, additional_emails : AdditionalEmailChoices,
     cal_email : CalEmailChoices, entries : SeqsUpTo(Entries, MaxEntries)]

----------------------------------------------------------------------------
\* Meeting URLs and physical locations (extract_meeting_url, get_physical_location)

\* the pattern lists of the harness hold at most this many patterns
MaxPatterns == 2

\* texts are sequences of pieces; " " is white space, "https://" and "http://"
\* are the schemes, the others stand for runs of other characters
NoText == <<"<none>">>

T_room == <<"Room">>
T_meet == <<"https://", "meet/", "abc">>
T_meet_other == <<"https://", "meet/", "xyz">>
T_join_zoom == <<"Join:", " ", "https://", "zoom/", "123">>
T_room_and_meet == <<"Room", " ", "https://", "meet/", "abc">>
T_padded_room == <<" ", "Room", " ">>
T_padded_meet == <<" ", "https://", "meet/", "abc">>
T_generic == <<"https://", "example/">>
T_plain_http == <<"http://", "example/">>
T_blank == <<" ">>
T_empty == <<>>

Locations == {NoText, T_room, T_meet, T_join_zoom, T_room_and_meet, T_padded_room,
              T_padded_meet, T_generic, T_plain_http, T_blank, T_empty}
Descriptions == {NoText, T_room, T_meet_other, T_join_zoom}

\* a pattern of the user's list: whether Regex::new accepts it, the pieces it
\* starts with, and the class of pieces it then repeats one or more times
\* (none when the class is empty)
Pattern(valid, prefix, tail) == [valid |-> valid, prefix |-> prefix, tail |-> tail]

\* https://meet\.google\.com/[a-z-]+
P_meet == Pattern(TRUE, <<"https://", "meet/">>, {"abc", "xyz"})
\* https://zoom\.us/j/\d+
P_zoom == Pattern(TRUE, <<"https://", "zoom/">>, {"123"})
\* https://
P_scheme == Pattern(TRUE, <<"https://">>, {})
\* Room
P_room == Pattern(TRUE, <<"Room">>, {})
\* https://meet\.google\.com/([a-z-]+  (unclosed group)
P_invalid == Pattern(FALSE, <<"https://", "meet/">>, {"abc", "xyz"})

Patterns == {P_meet, P_zoom, P_scheme, P_room, P_invalid}

NoMatch == [found |-> FALSE, start |-> 0, end |-> 0]

MatchAt(regex, text, i) ==
    LET after == i + Len(regex.prefix)
    IN  /\ after - 1 <= Len(text)
        /\ SubSeq(text, i, after - 1) = regex.prefix
        /\ regex.tail # {} => (after <= Len(text) /\ text[after] \in regex.tail)

\* the last piece of the match that starts at i: the repetition is greedy
MatchEnd(regex, text, i) ==
    LET after == i + Len(regex.prefix)
    IN  CHOOSE k \in (after - 1)..Len(text) :
            /\ \A j \in after..k : text[j] \in regex.tail
            /\ k = Len(text) \/ text[k + 1] \notin regex.tail

\* Regex::find: the leftmost match; start and end are the first and last piece
Find(regex, text) ==
    LET hits == {i \in 1..Len(text) : MatchAt(regex, text, i)}
    IN  IF hits = {} THEN NoMatch
        ELSE LET first == CHOOSE i \in hits : \A j \in hits : i <= j
             IN  [found |-> TRUE, start |-> first, end |-> MatchEnd(regex, text, first)]

\* a plausible slip: one invalid pattern makes the whole list unusable
CompileAllOrNothing(patterns) ==
    IF \A i \in 1..Len(patterns) : patterns[i].valid THEN patterns ELSE <<>>

\* patterns.iter().filter_map(|p| Regex::new(p).ok()).collect()
Compile(patterns) ==
    LET Valid(p) == p.valid
    IN  SelectSeq(patterns, Valid)

\* "for regex in &compiled { if let Some(m) = regex.find(text) { return ... } }"
RECURSIVE FirstMatch(_, _)
FirstMatch(compiled, text) ==
    IF compiled = <<>> THEN NoText
    ELSE LET m == Find(Head(compiled), text)
         IN  IF m.found THEN SubSeq(text, m.start, m.end)
             ELSE FirstMatch(Tail(compiled), text)

\* a plausible slip: the description is looked at before the location
extract_meeting_url_description_first(meeting, patterns) ==
    LET compiled == Compile(patterns)
    IN  IF compiled = <<>> THEN NoText
        ELSE IF /\ meeting.description # NoText
                /\ FirstMatch(compiled, meeting.description) # NoText
        THEN FirstMatch(compiled, meeting.description)
        ELSE IF /\ meeting.location # NoText
                /\ FirstMatch(compiled, meeting.location) # NoText
        THEN FirstMatch(compiled, meeting.location)
        ELSE NoText

extract_meeting_url(meeting, patterns) ==
    LET compiled == Compile(patterns)
    IN  IF compiled = <<>> THEN NoText
        ELSE IF /\ meeting.location # NoText
                /\ FirstMatch(compiled, meeting.location) # NoText
        THEN FirstMatch(compiled, meeting.location)
        ELSE IF /\ meeting.description # NoText
                /\ FirstMatch(compiled, meeting.description) # NoText
        THEN FirstMatch(compiled, meeting.description)
        ELSE NoText

\* str::trim
RECURSIVE TrimStart(_)
TrimStart(text) ==
    IF text # <<>> /\ Head(text) = " " THEN TrimStart(Tail(text)) ELSE text

RECURSIVE TrimEnd(_)
TrimEnd(text) ==
    IF text # <<>> /\ text[Len(text)] = " "
    THEN TrimEnd(SubSeq(text, 1, Len(text) - 1)) ELSE text

Trim(text) == TrimEnd(TrimStart(text))

\* a plausible slip: any match of a pattern disqualifies the location
get_physical_location_any_match(meeting, url_patterns) ==
    IF meeting.location = NoText THEN NoText
    ELSE LET location == Trim(meeting.location)
             compiled == Compile(url_patterns)
         IN  IF location = <<>> THEN NoText
             ELSE IF \E i \in 1..Len(compiled) : Find(compiled[i], location).found
             THEN NoText
             ELSE IF Head(location) \in {"http://", "https://"} THEN NoText
             ELSE location

get_physical_location(meeting, url_patterns) ==
    IF meeting.location = NoText THEN NoText
    ELSE LET location == Trim(meeting.location)
             compiled == Compile(url_patterns)
         IN  IF location = <<>> THEN NoText
             ELSE IF \E i \in 1..Len(compiled) :
                        LET m == Find(compiled[i], location)
                        IN  m.found /\ m.start = 1 /\ m.end = Len(location)
             THEN NoText
             ELSE IF Head(location) \in {"http://", "https://"} THEN NoText
             ELSE location

UrlMeetings == [location : Locations, description : Descriptions]

UrlInputs ==
    [fn : {"extract_meeting_url", "get_physical_location"}, meeting : UrlMeetings,
     patterns : SeqsUpTo(Patterns, MaxPatterns)]

----------------------------------------------------------------------------
\* Time zone identifiers (parse_ical_timezone)

NoZone == "<none>"

\* the zones of the time zone database the model knows, by canonical name
IanaNames == {"America/Los_Angeles", "America/New_York", "America/Chicago",
              "America/Denver", "Europe/London", "Europe/Berlin", "Asia/Tokyo",
              "Asia/Singapore", "Asia/Seoul", "Asia/Kolkata", "Pacific/Auckland",
              "Australia/Sydney", "Australia/Perth", "UTC", "Etc/UTC", "EST", "GMT"}

\* the database name an identifier equals ignoring case, the identifier itself
\* when there is none
Canonical(s) ==
    CASE s \in {"america/los_angeles", "AMERICA/LOS_ANGELES"} -> "America/Los_Angeles"
      [] s = "europe/london" -> "Europe/London"
      [] s = "Asia/TOKYO" -> "Asia/Tokyo"
      [] s = "etc/utc" -> "Etc/UTC"
      [] s = "est" -> "EST"
      [] OTHER -> s

\* a plausible slip: the identifier is compared with the database as written
iana_to_tz_case_sensitive(iana) ==
    IF iana \in IanaNames
    THEN (IF iana = "Etc/UTC" THEN "UTC" ELSE iana)
    ELSE NoZone

\* Tz::from_str_insensitive, Etc/UTC normalized to UTC
iana_to_tz(iana) ==
    IF Canonical(iana) \in IanaNames
    THEN (IF Canonical(iana) = "Etc/UTC" THEN "UTC" ELSE Canonical(iana))
    ELSE NoZone

\* tz_str.replace(" Daylight Time", " Standard Time")
Normalized(tz_str) ==
    CASE tz_str = "Pacific Daylight Time" -> "Pacific Standard Time"
      [] tz_str = "Eastern Daylight Time" -> "Eastern Standard Time"
      [] OTHER -> tz_str

\* localzone::win_zone_to_iana: the CLDR table of vendor display names
win_zone_to_iana(name) ==
    CASE name = "Pacific Standard Time" -> "America/Los_Angeles"
      [] name = "Eastern Standard Time" -> "America/New_York"
      [] name = "India Standard Time" -> "Asia/Kolkata"
      [] name = "GMT Standard Time" -> "Europe/London"
      [] name = "Tokyo Standard Time" -> "Asia/Tokyo"
      [] OTHER -> NoZone

\* "common non-standard abbreviations seen in calendar software"
abbrev_iana(tz_str) ==
    CASE tz_str \in {"PST", "PDT"} -> "America/Los_Angeles"
      [] tz_str = "EDT" -> "America/New_York"
      [] tz_str = "CDT" -> "America/Chicago"
      [] tz_str = "MDT" -> "America/Denver"
      [] tz_str = "BST" -> "Europe/London"
      [] tz_str = "CEST" -> "Europe/Berlin"
      [] tz_str = "JST" -> "Asia/Tokyo"
      [] tz_str = "SGT" -> "Asia/Singapore"
      [] tz_str = "KST" -> "Asia/Seoul"
      [] tz_str \in {"NZST", "NZDT"} -> "Pacific/Auckland"
      [] tz_str \in {"AEST", "AEDT"} -> "Australia/Sydney"
      [] tz_str = "AWST" -> "Australia/Perth"
      [] tz_str = "Z" -> "UTC"
      [] OTHER -> NoZone

parse_ical_timezone(tz_str) ==
    IF iana_to_tz(tz_str) # NoZone THEN iana_to_tz(tz_str)
    ELSE IF win_zone_to_iana(Normalized(tz_str)) # NoZone
    THEN iana_to_tz(win_zone_to_iana(Normalized(tz_str)))
    ELSE IF abbrev_iana(tz_str) # NoZone THEN iana_to_tz(abbrev_iana(tz_str))
    ELSE NoZone

TzIdentifiers ==
    IanaNames \cup
    {"america/los_angeles", "AMERICA/LOS_ANGELES", "europe/london", "Asia/TOKYO",
     "etc/utc", "est", "Pacific Standard Time", "Pacific Daylight Time",
     "Eastern Standard Time", "Eastern Daylight Time", "India Standard Time",
     "GMT Standard Time", "Tokyo Standard Time", "PST", "PDT", "EDT", "CDT", "MDT",
     "BST", "CEST", "JST", "SGT", "KST", "NZST", "NZDT", "AEST", "AEDT", "AWST", "Z",
     "CST", "IST", "pst", "", "Unknown/Timezone", "not a timezone"}

TzInputs == [fn : {"parse_ical_timezone"}, tz_str : TzIdentifiers]

----------------------------------------------------------------------------
\* Source discovery on the text of the Data blocks (get_calendars_from_dbus,
\* parse_display_name)

\* at most this many sources in a reply of GetManagedObjects
MaxSources == 3

\* a Data block is a sequence of lines: group headers and key=value lines
Section(name) == [kind |-> "section", name |-> name, value |-> ""]
Key(name, value) == [kind |-> "key", name |-> name, value |-> value]

\* uid "" stands for a source without a UID property
SourceObject(uid, data) == [uid |-> uid, data |-> data]

\* a calendar with a display name
S_work == SourceObject("work", <<Section("Data Source"), Key("DisplayName[de]", "Arbeit"),
                                 Key("DisplayName", "Work"), Section("Calendar"),
                                 Key("BackendName", "caldav")>>)
\* a calendar without a DisplayName= line
S_home == SourceObject("home", <<Section("Data Source"), Section("Calendar"),
                                 Key("BackendName", "local")>>)
\* an address book
S_addr == SourceObject("addr", <<Section("Data Source"), Key("DisplayName", "Contacts"),
                                 Section("Address Book")>>)
\* a calendar whose UID property is missing
S_nouid == SourceObject("", <<Section("Data Source"), Key("DisplayName", "Birthdays"),
                              Section("Calendar")>>)
\* an address book the user named "[Calendar] Shared"
S_named == SourceObject("book", <<Section("Data Source"),
                                  Key("DisplayName", "[Calendar] Shared"),
                                  Section("Address Book")>>)

SourceObjects == {S_work, S_home, S_addr, S_nouid, S_named}

\* the section a block declares
HasSection(data, name) ==
    \E i \in 1..Len(data) : data[i].kind = "section" /\ data[i].name = name

\* a plausible slip: the block is searched for the group header only
DataContainsHeader(data, text) == text = "[Calendar]" /\ HasSection(data, "Calendar")

\* data.contains("[Calendar]"): the text occurs somewhere in the block, as a
\* group header or inside a value
DataContains(data, text) ==
    /\ text = "[Calendar]"
    /\ \E i \in 1..Len(data) :
          \/ data[i].kind = "section" /\ data[i].name = "Calendar"
          \/ data[i].kind = "key" /\ data[i].value \in {"[Calendar] Shared"}

\* line.starts_with("DisplayName=")
IsDisplayNameLine(line) == line.kind = "key" /\ line.name = "DisplayName"

NoName == "<none>"

\* parse_display_name: the value of the first DisplayName= line
parse_display_name(data) ==
    LET hits == SelectSeq(data, IsDisplayNameLine)
    IN  IF hits = <<>> THEN NoName ELSE hits[1].value

\* get_calendars_from_dbus on the objects of the reply, in the order the map
\* yields them; readable: the sources whose Revision can be read
get_calendars_from_dbus(objects, readable) ==
    LET IsCalendar(o) == o.uid # "" /\ DataContains(o.data, "[Calendar]")
        kept == SelectSeq(objects, IsCalendar)
        info(o) == [uid |-> o.uid,
                    display_name |-> IF parse_display_name(o.data) = NoName
                                     THEN o.uid ELSE parse_display_name(o.data),
                    last_synced |-> o.uid \in readable]
    IN  SortByName([i \in 1..Len(kept) |-> info(kept[i])])

DiscoveryInputs ==
    [fn : {"get_calendars_from_dbus"},
     objects : {f \in SeqsUpTo(SourceObjects, MaxSources) :
                   \A i, j \in 1..Len(f) : f[i] = f[j] => i = j},
     readable : SUBSET {"work", "home"}]

----------------------------------------------------------------------------
\* What the popup shows (app.rs: filtered_meetings, view_main_page) of what a
\* fetch with limit upcoming_events_count + 1 returned

\* upcoming_events_count ranges over 0..MaxCount
MaxCount == 2

DisplayMeeting(uid, start, end, is_all_day, attendance_status) ==
    [uid |-> uid, start |-> start, end |-> end, is_all_day |-> is_all_day,
     attendance_status |-> attendance_status]

\* occurrences the calendars may hold; the display happens at now = 0, and all
\* of them pass should_include_meeting then
D_started == DisplayMeeting("s", 0 - 10, 50, FALSE, "Accepted")
D_allday == DisplayMeeting("d", 5, 5 + MinutesPerDay, TRUE, "None")
D_declined == DisplayMeeting("x", 20, 50, FALSE, "Declined")
D_accepted == DisplayMeeting("a", 30, 60, FALSE, "Accepted")
D_tentative == DisplayMeeting("t", 40, 70, FALSE, "Tentative")
D_own == DisplayMeeting("o", 50, 80, FALSE, "None")

DisplayMeetings == {D_started, D_allday, D_declined, D_accepted, D_tentative, D_own}

DisplayConfigs ==
    [show_all_day_events : BOOLEAN,
     show_in_progress : {"Off", "Within5m", "Within10m", "Within15m", "Within30m"},
     event_status_filter : {"All", "Accepted", "AcceptedOrTentative"},
     upcoming_events_count : 0..MaxCount]

\* the closure of filtered_meetings
PassesDisplayFilters(m, cfg, now) ==
    /\ ~(~cfg.show_all_day_events /\ m.is_all_day)
    /\ (m.start <= now) =>
          LET minutes_since_start == now - m.start
          IN  CASE cfg.show_in_progress = "Off" -> FALSE
                [] cfg.show_in_progress = "Within5m" -> minutes_since_start <= 5
                [] cfg.show_in_progress = "Within10m" -> minutes_since_start <= 10
                [] cfg.show_in_progress = "Within15m" -> minutes_since_start <= 15
                [] OTHER -> minutes_since_start <= 30
    /\ CASE cfg.event_status_filter = "All" -> TRUE
          [] cfg.event_status_filter = "Accepted" ->
                 m.attendance_status \in {"Accepted", "None"}
          [] OTHER -> m.attendance_status \in {"Accepted", "Tentative", "None"}

\* AppModel::filtered_meetings
filtered_meetings(upcoming, cfg, now) ==
    LET Passes(m) == PassesDisplayFilters(m, cfg, now)
    IN  SelectSeq(upcoming, Passes)

\* view_main_page: filtered.first() is the next meeting, then
\* filtered.iter().skip(1).take(upcoming_count) when upcoming_count > 0
view_main_page(upcoming, cfg, now) ==
    LET filtered == filtered_meetings(upcoming, cfg, now)
    IN  IF filtered = <<>> THEN <<>>
        ELSE IF cfg.upcoming_events_count > 0 /\ Len(filtered) > 1
        THEN <<Head(filtered)>> \o Take(Tail(filtered), cfg.upcoming_events_count)
        ELSE <<Head(filtered)>>

\* the occurrences of `held` the engine returns for the limit the applet asks
\* with: those passing the time filter, sorted by start, the first limit.max(1)
FetchedForDisplay(held, cfg, now) ==
    LET Included(m) == should_include_meeting(m.start, m.end, now, now - QueryBack)
    IN  Take(SortByStart(SelectSeq(held, Included)),
             EffectiveLimit(cfg.upcoming_events_count + 1))

\* the subsets of DisplayMeetings as sequences
RECURSIVE SeqOfSet(_)
SeqOfSet(S) ==
    IF S = {} THEN <<>>
    ELSE LET m == CHOOSE x \in S : TRUE IN <<m>> \o SeqOfSet(S \ {m})

DisplayInputs ==
    [fn : {"view_main_page"},
     held : {SeqOfSet(S) : S \in SUBSET DisplayMeetings},
     cfg : DisplayConfigs]

----------------------------------------------------------------------------
\* Harness of the pure functions: Init draws the arguments, one action per
\* function applies it.

PureTimes == 0..MaxT

EngineIdle ==
    /\ pc = "off"
    /\ call = [op |-> "none"]
    /\ localZone = "fixed"
    /\ clock = 0
    /\ source_uids = <<>>
    /\ all_meetings = <<>>
    /\ result = <<>>
    /\ calendars = <<>>
    /\ calendar_info = <<>>
    /\ watchers = {}
    /\ log = <<>>

InitPure ==
    /\ pureIn \in [fn : {"should_include_meeting"}, start : PureTimes,
                   end : PureTimes, now : PureTimes, query_start : PureTimes]
                  \cup AttendanceInputs \cup UrlInputs \cup TzInputs
                  \cup DiscoveryInputs \cup DisplayInputs
    /\ pureOut = PureNoResult
    /\ EngineIdle
    /\ AppIdle
    /\ WatchIdle
    /\ UiIdle

ShouldIncludeCall ==
    /\ pureIn.fn = "should_include_meeting"
    /\ ~pureOut.done
    /\ pureOut' = [done |-> TRUE,
                   value |-> should_include_meeting(pureIn.start, pureIn.end,
                                                    pureIn.now, pureIn.query_start)]
    /\ UNCHANGED <<pureIn, engineVars, appVars, watchVars, uiVars>>

\* the attendance status get_meetings_from_dbus gives a meeting
AttendanceCall ==
    /\ pureIn.fn = "attendance_status"
    /\ ~pureOut.done
    /\ pureOut' = [done |-> TRUE,
                   value |-> parse_attendance_status_calcard(
                                 pureIn.entries,
                                 UserEmails(pureIn.additional_emails, pureIn.cal_email))]
    /\ UNCHANGED <<pureIn, engineVars, appVars, watchVars, uiVars>>

ExtractMeetingUrlCall ==
    /\ pureIn.fn = "extract_meeting_url"
    /\ ~pureOut.done
    /\ pureOut' = [done |-> TRUE,
                   value |-> extract_meeting_url(pureIn.meeting, pureIn.patterns)]
    /\ UNCHANGED <<pureIn, engineVars, appVars, watchVars, uiVars>>

GetPhysicalLocationCall ==
    /\ pureIn.fn = "get_physical_location"
    /\ ~pureOut.done
    /\ pureOut' = [done |-> TRUE,
                   value |-> get_physical_location(pureIn.meeting, pureIn.patterns)]
    /\ UNCHANGED <<pureIn, engineVars, appVars, watchVars, uiVars>>

ParseIcalTimezoneCall ==
    /\ pureIn.fn = "parse_ical_timezone"
    /\ ~pureOut.done
    /\ pureOut' = [done |-> TRUE, value |-> parse_ical_timezone(pureIn.tz_str)]
    /\ UNCHANGED <<pureIn, engineVars, appVars, watchVars, uiVars>>

GetCalendarsFromDbusCall ==
    /\ pureIn.fn = "get_calendars_from_dbus"
    /\ ~pureOut.done
    /\ pureOut' = [done |-> TRUE,
                   value |-> get_calendars_from_dbus(pureIn.objects, pureIn.readable)]
    /\ UNCHANGED <<pureIn, engineVars, appVars, watchVars, uiVars>>

\* the popup's main page after a fetch, displayed at now = 0
ViewMainPageCall ==
    /\ pureIn.fn = "view_main_page"
    /\ ~pureOut.done
    /\ pureOut' = [done |-> TRUE,
                   value |-> view_main_page(
                                 FetchedForDisplay(pureIn.held, pureIn.cfg, 0),
                                 pureIn.cfg, 0)]
    /\ UNCHANGED <<pureIn, engineVars, appVars, watchVars, uiVars>>

NextPure ==
    \/ ViewMainPageCall
    \/ GetCalendarsFromDbusCall
    \/ ParseIcalTimezoneCall
    \/ ShouldIncludeCall
    \/ AttendanceCall
    \/ ExtractMeetingUrlCall
    \/ GetPhysicalLocationCall

SpecPure == InitPure /\ [][NextPure]_vars

----------------------------------------------------------------------------
\* The applet (app.rs): AppModel, the messages it handles, the tasks it starts

\* tasks started and not yet finished, at most this many at a time
MaxTasks == 3

\* what the sources hold while the applet runs
AppReply(uid) ==
    CASE uid = "work" -> <<R_inprog, R_single>>
      [] uid = "home" -> <<R_exdate, R_edge>>
      [] OTHER -> <<R_birthday>>

\* the order the source loop takes the sources in
AppOrder == <<"bday", "home", "work">>

\* the sources get_meetings_from_dbus opens and queries for an enabled list
SourcesQueried(enabled_uids) == Range(SelectSources(AppOrder, enabled_uids))

RECURSIVE MeetingsOf(_)
MeetingsOf(uids) ==
    IF uids = <<>> THEN <<>>
    ELSE ReplyMeetings(AppReply(Head(uids)), Head(uids), "fixed", 0)
         \o MeetingsOf(Tail(uids))

\* what get_upcoming_meetings(enabled_uids, limit) returns to the applet
GetUpcomingMeetings(enabled_uids, limit, reachable) ==
    IF reachable
    THEN Take(SortByStart(MeetingsOf(SelectSources(AppOrder, enabled_uids))),
              EffectiveLimit(limit))
    ELSE <<>>

\* what get_available_calendars() returns to the applet
GetAvailableCalendars(reachable) ==
    IF reachable
    THEN SortByName([i \in 1..Len(AppOrder) |-> MakeCalendarInfo(AppOrder[i])])
    ELSE <<>>

MeetingSourceUids(cals) ==
    {c.uid : c \in {x \in Range(cals) : is_meeting_source(x)}}

\* AppModel::enabled_meeting_source_uids
enabled_meeting_source_uids(cfg, cals) ==
    IF cals = <<>> THEN cfg.enabled_calendar_uids
    ELSE IF cfg.enabled_calendar_uids = {} THEN MeetingSourceUids(cals)
    ELSE cfg.enabled_calendar_uids \cap MeetingSourceUids(cals)

\* count.clamp(lo, hi)
Clamp(x, lo, hi) == IF x < lo THEN lo ELSE IF x > hi THEN hi ELSE x

\* the Tasks of the applet, with what their closures captured; newest marks
\* the task whose get_upcoming_meetings was started last (history)
CalendarsTask == [kind |-> "calendars", enabled_uids |-> {}, limit |-> 0,
                  newest |-> FALSE]
FetchTask(enabled_uids, limit) ==
    [kind |-> "fetch", enabled_uids |-> enabled_uids, limit |-> limit,
     newest |-> TRUE]
PollTask(enabled_uids, limit) ==
    [kind |-> "poll", enabled_uids |-> enabled_uids, limit |-> limit,
     newest |-> FALSE]
RefreshTask(enabled_uids) ==
    [kind |-> "refresh", enabled_uids |-> enabled_uids, limit |-> 0,
     newest |-> FALSE]
RefreshFetchTask(enabled_uids, limit) ==
    [kind |-> "refresh_fetch", enabled_uids |-> enabled_uids, limit |-> limit,
     newest |-> TRUE]
RefreshCompletedTask == [kind |-> "refresh_completed", enabled_uids |-> {}, limit |-> 0,
                         newest |-> FALSE]

\* the tasks that were running when a later fetch is started
Earlier(ts) == {[t EXCEPT !.newest = FALSE] : t \in ts}

Started(new) ==
    LET running == IF \E t \in new : t.newest THEN Earlier(tasks) ELSE tasks
    IN  /\ Cardinality(running \cup new) <= MaxTasks
        /\ tasks' = running \cup new

CountInputs == {0 - 1, 1}

\* AppModel::init: the configuration is loaded (no calendar chosen yet, one
\* upcoming event wanted), the calendar list and the meetings are asked for
InitApp ==
    /\ pureIn = PureIdle
    /\ pureOut = PureNoResult
    /\ EngineIdle
    /\ config = [enabled_calendar_uids |-> {}, upcoming_events_count |-> 1,
                 auto_refresh_enabled |-> FALSE]
    /\ available_calendars = <<>>
    /\ upcoming_meetings = <<>>
    /\ is_refreshing = FALSE
    /\ has_loaded_meetings = FALSE
    /\ tasks = {CalendarsTask,
                FetchTask(config.enabled_calendar_uids,
                          config.upcoming_events_count + 1)}
    /\ app_queried = {}
    /\ WatchIdle
    /\ UiIdle

\* a task's get_upcoming_meetings has run
Fetched(t, reachable) ==
    /\ upcoming_meetings' = GetUpcomingMeetings(t.enabled_uids, t.limit, reachable)
    /\ has_loaded_meetings' = TRUE
    /\ app_queried' = IF reachable THEN SourcesQueried(t.enabled_uids) ELSE {}

\* a fetch finishes: Message::MeetingsUpdated
MeetingsUpdated ==
    /\ \E t \in tasks, reachable \in BOOLEAN :
          /\ t.kind = "fetch"
          /\ Fetched(t, reachable)
          /\ tasks' = tasks \ {t}
    /\ UNCHANGED <<uiVars, pureVars, engineVars, watchVars, config, available_calendars, is_refreshing>>

\* get_available_calendars finishes: Message::CalendarsLoaded
CalendarsLoaded ==
    /\ \E t \in tasks, reachable \in BOOLEAN :
          /\ t.kind = "calendars"
          /\ available_calendars' = GetAvailableCalendars(reachable)
          /\ tasks' = tasks \ {t}
    /\ UNCHANGED <<uiVars, pureVars, engineVars, watchVars, config, upcoming_meetings, is_refreshing,
                   has_loaded_meetings, app_queried>>

\* the 60-second subscription ticks: it reads the calendar list first, with
\* the configuration values the subscription was built from
PollTick ==
    /\ Started({PollTask(config.enabled_calendar_uids,
                         config.upcoming_events_count + 1)})
    /\ UNCHANGED <<uiVars, pureVars, engineVars, watchVars, config, available_calendars,
                   upcoming_meetings, is_refreshing, has_loaded_meetings, app_queried>>

\* the subscription sends CalendarsLoaded and goes on to get_upcoming_meetings
PollCalendarsLoaded ==
    /\ \E t \in tasks, reachable \in BOOLEAN :
          /\ t.kind = "poll"
          /\ available_calendars' = GetAvailableCalendars(reachable)
          /\ tasks' = Earlier(tasks \ {t}) \cup {FetchTask(t.enabled_uids, t.limit)}
    /\ UNCHANGED <<uiVars, pureVars, engineVars, watchVars, config, upcoming_meetings, is_refreshing,
                   has_loaded_meetings, app_queried>>

\* Message::ToggleCalendar(uid): the settings page offers a toggler for the
\* meeting sources of available_calendars
ToggleCalendar(uid) ==
    /\ uid \in MeetingSourceUids(available_calendars)
    /\ LET populated == IF config.enabled_calendar_uids = {}
                        THEN MeetingSourceUids(available_calendars)
                        ELSE config.enabled_calendar_uids
           toggled == IF uid \in populated THEN populated \ {uid}
                      ELSE populated \cup {uid}
       IN  config' = [config EXCEPT !.enabled_calendar_uids = toggled]
    /\ Started({FetchTask(enabled_meeting_source_uids(config', available_calendars),
                          config'.upcoming_events_count + 1)})
    /\ UNCHANGED <<uiVars, pureVars, engineVars, watchVars, available_calendars, upcoming_meetings,
                   is_refreshing, has_loaded_meetings, app_queried>>

\* Message::SetUpcomingEventsCount(count)
SetUpcomingEventsCount(count) ==
    /\ config' = [config EXCEPT !.upcoming_events_count = Clamp(count, 0, 10)]
    /\ Started({FetchTask(config'.enabled_calendar_uids,
                          config'.upcoming_events_count + 1)})
    /\ UNCHANGED <<uiVars, pureVars, engineVars, watchVars, available_calendars, upcoming_meetings,
                   is_refreshing, has_loaded_meetings, app_queried>>

\* Message::SetAutoRefresh(enabled)
SetAutoRefresh(enabled) ==
    /\ config' = [config EXCEPT !.auto_refresh_enabled = enabled]
    /\ UNCHANGED <<uiVars, pureVars, engineVars, watchVars, available_calendars, upcoming_meetings,
                   is_refreshing, has_loaded_meetings, tasks, app_queried>>

\* a plausible slip: the guard on is_refreshing is missing
RefreshGuardMissing(refreshing) == TRUE

\* "if !self.is_refreshing"
RefreshGuard(refreshing) == ~refreshing

\* Message::RefreshCalendars
RefreshCalendars ==
    /\ IF RefreshGuard(is_refreshing)
       THEN /\ is_refreshing' = TRUE
            /\ Started({RefreshFetchTask(
                           enabled_meeting_source_uids(config, available_calendars),
                           config.upcoming_events_count + 1)})
       ELSE UNCHANGED <<is_refreshing, tasks>>
    /\ UNCHANGED <<uiVars, pureVars, engineVars, watchVars, config, available_calendars,
                   upcoming_meetings, has_loaded_meetings, app_queried>>

\* the refresh task finishes: refresh_calendars, the pause and
\* get_upcoming_meetings have run; MeetingsUpdated is handled and
\* RefreshCompleted is chained
RefreshFetched ==
    /\ \E t \in tasks, reachable \in BOOLEAN :
          /\ t.kind = "refresh_fetch"
          /\ Fetched(t, reachable)
          /\ tasks' = (tasks \ {t}) \cup {RefreshCompletedTask}
    /\ UNCHANGED <<uiVars, pureVars, engineVars, watchVars, config, available_calendars, is_refreshing>>

\* Message::RefreshCompleted
RefreshCompleted ==
    /\ RefreshCompletedTask \in tasks
    /\ is_refreshing' = FALSE
    /\ tasks' = tasks \ {RefreshCompletedTask}
    /\ UNCHANGED <<uiVars, pureVars, engineVars, watchVars, config, available_calendars,
                   upcoming_meetings, has_loaded_meetings, app_queried>>

\* Message::CalendarChanged
CalendarChanged ==
    /\ Started({CalendarsTask,
                FetchTask(enabled_meeting_source_uids(config, available_calendars),
                          config.upcoming_events_count + 1)})
    /\ UNCHANGED <<uiVars, pureVars, engineVars, watchVars, config, available_calendars,
                   upcoming_meetings, is_refreshing, has_loaded_meetings, app_queried>>

\* Message::SystemResumed
SystemResumed ==
    /\ LET enabled_uids == enabled_meeting_source_uids(config, available_calendars)
       IN  Started((IF config.auto_refresh_enabled
                    THEN {RefreshTask(enabled_uids)} ELSE {})
                   \cup {CalendarsTask,
                         FetchTask(enabled_uids, config.upcoming_events_count + 1)})
    /\ UNCHANGED <<uiVars, pureVars, engineVars, watchVars, config, available_calendars,
                   upcoming_meetings, is_refreshing, has_loaded_meetings, app_queried>>

\* the refresh started on resume finishes: Message::Noop
Noop ==
    /\ \E t \in tasks :
          /\ t.kind = "refresh"
          /\ tasks' = tasks \ {t}
    /\ UNCHANGED <<uiVars, pureVars, engineVars, watchVars, config, available_calendars,
                   upcoming_meetings, is_refreshing, has_loaded_meetings, app_queried>>

NextApp ==
    \/ MeetingsUpdated
    \/ CalendarsLoaded
    \/ PollTick
    \/ PollCalendarsLoaded
    \/ \E uid \in CalendarUids : ToggleCalendar(uid)
    \/ \E count \in CountInputs : SetUpcomingEventsCount(count)
    \/ \E enabled \in BOOLEAN : SetAutoRefresh(enabled)
    \/ RefreshCalendars
    \/ RefreshFetched
    \/ RefreshCompleted
    \/ CalendarChanged
    \/ SystemResumed
    \/ Noop

SpecApp == InitApp /\ [][NextApp]_vars

----------------------------------------------------------------------------
\* The watchers (calendar.rs) and the subscriptions that forward their signals
\* (app.rs): watch_single_calendar for two calendars, watch_prepare_for_sleep
\* and watch_session_unlock, one tokio channel and one forwarding loop for the
\* calendar watchers, one of each for the resume watchers

\* the bus emits at most this many signals
MaxSignals == 5
\* the calendar-changes subscription is recreated at most this many times
MaxRecreations == 1

CalendarWatchers == {"work", "home"}
Watchers == CalendarWatchers \cup {"sleep", "unlock"}
Channels == {"calendar", "resume"}

\* the sender each watcher was given
ChannelOf(w) == IF w \in CalendarWatchers THEN "calendar" ELSE "resume"

\* tokio::sync::mpsc::channel::<()>(4) and (2)
CalendarChannelCapacity == 4
ResumeChannelCapacity == 2
Capacity(c) == IF c = "calendar" THEN CalendarChannelCapacity ELSE ResumeChannelCapacity

\* cosmic::iced::stream::channel(4, ..) and (2, ..)
CalendarOutboxCapacity == 4
ResumeOutboxCapacity == 2
OutboxCapacity(c) == IF c = "calendar" THEN CalendarOutboxCapacity ELSE ResumeOutboxCapacity

\* the watchers are listening, the channels are empty
InitWatch ==
    /\ pureIn = PureIdle
    /\ pureOut = PureNoResult
    /\ EngineIdle
    /\ AppIdle
    /\ w_pc = [w \in Watchers |-> "waiting"]
    /\ w_sig = [w \in Watchers |-> "none"]
    /\ chan = [c \in Channels |-> 0]
    /\ receiver = [c \in Channels |-> TRUE]
    /\ fwd_pc = [c \in Channels |-> "recv"]
    /\ outbox = [c \in Channels |-> 0]
    /\ signals = 0
    /\ owed = FALSE
    /\ full_drops = {}
    /\ detached = [c \in Channels |-> 0]
    /\ UiIdle

\* signal.body::<bool>(): true = going to sleep, false = waking up
Body(kind) ==
    CASE kind = "sleep" -> [ok |-> TRUE, value |-> TRUE]
      [] kind = "wake" -> [ok |-> TRUE, value |-> FALSE]
      [] OTHER -> [ok |-> FALSE, value |-> FALSE]

\* a plausible slip: everything that is not a decoded "going to sleep" counts
SystemJustWokeUpLoose(kind) == ~(Body(kind).ok /\ Body(kind).value)

\* signal.body::<bool>().is_ok_and(|going_to_sleep| !going_to_sleep)
SystemJustWokeUp(kind) == Body(kind).ok /\ ~Body(kind).value

\* watch_single_calendar: stream.next() yields a PropertiesChanged signal
PropertiesChangedSignal(w) ==
    /\ w \in CalendarWatchers
    /\ w_pc[w] = "waiting"
    /\ signals < MaxSignals
    /\ signals' = signals + 1
    /\ w_sig' = [w_sig EXCEPT ![w] = "PropertiesChanged"]
    /\ w_pc' = [w_pc EXCEPT ![w] = "sending"]
    /\ owed' = TRUE
    /\ UNCHANGED <<uiVars, pureVars, engineVars, appVars, chan, receiver, fwd_pc, outbox,
                   full_drops, detached>>

\* watch_prepare_for_sleep: stream.next() yields a PrepareForSleep signal
PrepareForSleepSignal(kind) ==
    /\ w_pc["sleep"] = "waiting"
    /\ signals < MaxSignals
    /\ signals' = signals + 1
    /\ w_sig' = [w_sig EXCEPT !["sleep"] = kind]
    /\ w_pc' = [w_pc EXCEPT !["sleep"] =
                   IF SystemJustWokeUp(kind) THEN "sending" ELSE "waiting"]
    /\ UNCHANGED <<uiVars, pureVars, engineVars, appVars, chan, receiver, fwd_pc, outbox,
                   owed, full_drops, detached>>

\* watch_session_unlock: stream.next() yields an Unlock signal
UnlockSignal ==
    /\ w_pc["unlock"] = "waiting"
    /\ signals < MaxSignals
    /\ signals' = signals + 1
    /\ w_sig' = [w_sig EXCEPT !["unlock"] = "Unlock"]
    /\ w_pc' = [w_pc EXCEPT !["unlock"] = "sending"]
    /\ UNCHANGED <<uiVars, pureVars, engineVars, appVars, chan, receiver, fwd_pc, outbox,
                   owed, full_drops, detached>>

\* a plausible slip: sender.send(()).await, which waits for room in the channel
SendReady(queued, capacity) == queued < capacity

\* sender.try_send(()) returns at once, whatever the state of the channel
TrySendReady(queued, capacity) == TRUE

\* a plausible slip: the signal is never put into the channel
TrySendNothing(queued, capacity, has_receiver) == queued

\* what try_send leaves in the channel: one more when the receiver exists and
\* there is room, the same otherwise (the error is ignored)
TrySend(queued, capacity, has_receiver) ==
    IF has_receiver /\ queued < capacity THEN queued + 1 ELSE queued

\* "let _ = sender.try_send(());" and back to stream.next()
TrySendStep(w) ==
    LET c == ChannelOf(w)
    IN  /\ w_pc[w] = "sending"
        /\ TrySendReady(chan[c], Capacity(c))
        /\ chan' = [chan EXCEPT ![c] = TrySend(chan[c], Capacity(c), receiver[c])]
        /\ full_drops' = IF receiver[c] /\ chan'[c] = chan[c]
                         THEN full_drops \cup {c} ELSE full_drops
        /\ w_pc' = [w_pc EXCEPT ![w] = "waiting"]
        /\ UNCHANGED <<uiVars, pureVars, engineVars, appVars, w_sig, receiver, fwd_pc,
                       outbox, signals, owed, detached>>

\* the subscription's loop: receiver.recv().await yields a signal
ForwardRecv(c) ==
    /\ receiver[c]
    /\ fwd_pc[c] = "recv"
    /\ chan[c] > 0
    /\ chan' = [chan EXCEPT ![c] = @ - 1]
    /\ fwd_pc' = [fwd_pc EXCEPT ![c] = "send"]
    /\ UNCHANGED <<uiVars, pureVars, engineVars, appVars, w_pc, w_sig, receiver, outbox,
                   signals, owed, full_drops, detached>>

\* channel.send(Message::CalendarChanged / SystemResumed).await
ForwardSend(c) ==
    /\ receiver[c]
    /\ fwd_pc[c] = "send"
    /\ outbox[c] < OutboxCapacity(c)
    /\ outbox' = [outbox EXCEPT ![c] = @ + 1]
    /\ fwd_pc' = [fwd_pc EXCEPT ![c] = "recv"]
    /\ UNCHANGED <<uiVars, pureVars, engineVars, appVars, w_pc, w_sig, chan, receiver,
                   signals, owed, full_drops, detached>>

\* the runtime takes Message::CalendarChanged and update handles it
DeliverCalendarChanged ==
    /\ outbox["calendar"] > 0
    /\ outbox' = [outbox EXCEPT !["calendar"] = @ - 1]
    /\ owed' = FALSE
    /\ UNCHANGED <<uiVars, pureVars, engineVars, appVars, w_pc, w_sig, chan, receiver,
                   fwd_pc, signals, full_drops, detached>>

\* the runtime takes Message::SystemResumed and update handles it
DeliverSystemResumed ==
    /\ outbox["resume"] > 0
    /\ outbox' = [outbox EXCEPT !["resume"] = @ - 1]
    /\ UNCHANGED <<uiVars, pureVars, engineVars, appVars, w_pc, w_sig, chan, receiver,
                   fwd_pc, signals, owed, full_drops, detached>>

\* a plausible slip: the listeners are aborted with the stream that owns them
ListenersLeftRunningNone(c) == {}

\* the listener tasks of channel c that go on when its stream is dropped: all
\* of them, as dropping watch_task (a JoinHandle) detaches the task and no
\* listener loop ends on a failed try_send
ListenersLeftRunning(c) == {w \in Watchers : ChannelOf(w) = c}

\* the subscription's stream is dropped (its id is no longer in the batch):
\* its receiver, what is queued for it and what it has not handed over yet go
\* with it; the listeners go on
DropSubscription(c) ==
    /\ receiver[c]
    /\ receiver' = [receiver EXCEPT ![c] = FALSE]
    /\ chan' = [chan EXCEPT ![c] = 0]
    /\ outbox' = [outbox EXCEPT ![c] = 0]
    /\ fwd_pc' = [fwd_pc EXCEPT ![c] = "dropped"]
    /\ detached' = [detached EXCEPT ![c] = @ + Cardinality(ListenersLeftRunning(c))]
    /\ w_pc' = [w \in Watchers |->
                  IF ChannelOf(w) = c /\ w \notin ListenersLeftRunning(c)
                  THEN "stopped" ELSE w_pc[w]]
    /\ UNCHANGED <<uiVars, pureVars, engineVars, appVars, w_sig, signals, owed,
                   full_drops>>

\* subscription() after a change of enabled_calendar_uids, upcoming_events_count
\* or additional_emails: Subscription::run_with_id(("calendar-changes",
\* config_hash), ..) has a new id, so a new stream runs with a new channel and
\* a new watch_calendar_changes task that spawns its own listeners
RecreateCalendarSubscription ==
    /\ ~receiver["calendar"]
    /\ detached["calendar"] <= MaxRecreations * Cardinality(CalendarWatchers)
    /\ receiver' = [receiver EXCEPT !["calendar"] = TRUE]
    /\ fwd_pc' = [fwd_pc EXCEPT !["calendar"] = "recv"]
    /\ w_pc' = [w \in Watchers |-> IF w \in CalendarWatchers THEN "waiting" ELSE w_pc[w]]
    /\ w_sig' = [w \in Watchers |-> IF w \in CalendarWatchers THEN "none" ELSE w_sig[w]]
    /\ owed' = FALSE
    /\ UNCHANGED <<uiVars, pureVars, engineVars, appVars, chan, outbox, signals,
                   full_drops, detached>>

NextWatch ==
    \/ \E w \in CalendarWatchers : PropertiesChangedSignal(w)
    \/ \E kind \in {"sleep", "wake", "undecodable"} : PrepareForSleepSignal(kind)
    \/ UnlockSignal
    \/ \E w \in Watchers : TrySendStep(w)
    \/ \E c \in Channels : ForwardRecv(c)
    \/ \E c \in Channels : ForwardSend(c)
    \/ DeliverCalendarChanged
    \/ DeliverSystemResumed
    \/ \E c \in Channels : DropSubscription(c)
    \/ RecreateCalendarSubscription

SpecWatch == InitWatch /\ [][NextWatch]_vars

\* every loop that can take a step eventually takes it
FairWatch ==
    /\ \A w \in Watchers : WF_vars(TrySendStep(w))
    /\ \A c \in Channels : WF_vars(ForwardRecv(c)) /\ WF_vars(ForwardSend(c))
    /\ WF_vars(DeliverCalendarChanged)
    /\ WF_vars(DeliverSystemResumed)

SpecWatchFair == SpecWatch /\ FairWatch

----------------------------------------------------------------------------
\* One manual refresh (app.rs, Message::RefreshCalendars): the handler, the
\* task it starts running refresh_calendars, the pause and
\* get_upcoming_meetings step by step on the bus, and the two messages the
\* task ends with

\* RefreshCalendars messages handled while a refresh runs, at most this many
MaxIgnored == 1

\* where a RefreshCalendars message comes from: the "refresh now" button of
\* the refresh settings page, the auto-refresh subscription
RefreshOrigins == {"button", "timer"}

RefreshConfigs ==
    {[enabled_calendar_uids |-> e, upcoming_events_count |-> 1,
      auto_refresh_enabled |-> a] : e \in {{}, {"work"}, {"home", "gone"}},
                                    a \in BOOLEAN}

\* the applet is running: the calendar list is loaded or not yet, no refresh
\* is in progress
InitRefresh ==
    /\ pureIn = PureIdle
    /\ pureOut = PureNoResult
    /\ pc = "idle"
    /\ call = [op |-> "none", enabled_uids |-> {}, limit |-> 0]
    /\ localZone = "fixed"
    /\ clock = 0
    /\ source_uids = <<>>
    /\ all_meetings = <<>>
    /\ result = <<>>
    /\ calendars = <<>>
    /\ calendar_info = <<>>
    /\ watchers = {}
    /\ log = NoLog
    /\ config \in RefreshConfigs
    /\ available_calendars \in {<<>>, GetAvailableCalendars(TRUE)}
    /\ upcoming_meetings = <<>>
    /\ is_refreshing = FALSE
    /\ has_loaded_meetings = FALSE
    /\ tasks = {}
    /\ app_queried = {}
    /\ WatchIdle
    /\ UiIdle

\* update(Message::RefreshCalendars): the button has no on_press while
\* is_refreshing, the timer sends whenever auto-refresh is enabled
UpdateRefreshCalendars(origin) ==
    /\ origin = "button" => ~is_refreshing
    /\ origin = "timer" => config.auto_refresh_enabled
    /\ IF RefreshGuard(is_refreshing)
       THEN /\ is_refreshing' = TRUE
            /\ refresh_pc' = "refresh_calendars"
            /\ call' = [op |-> "refresh_calendars",
                        enabled_uids |->
                            enabled_meeting_source_uids(config, available_calendars),
                        limit |-> config.upcoming_events_count + 1]
            /\ pc' = "connect"
            /\ log' = NoLog
            /\ source_uids' = <<>>
            /\ all_meetings' = <<>>
            /\ result' = <<>>
            /\ UNCHANGED ignored
       ELSE /\ ignored < MaxIgnored
            /\ ignored' = ignored + 1
            /\ UNCHANGED <<is_refreshing, refresh_pc, call, pc, log, source_uids,
                           all_meetings, result>>
    /\ UNCHANGED <<popupVars, pureVars, watchVars, localZone, clock, calendars,
                   calendar_info, watchers, config, available_calendars,
                   upcoming_meetings, has_loaded_meetings, tasks, app_queried>>

\* a plausible slip: the task goes on only after a refresh that reached the
\* sources
RefreshCalendarsReturnedOk == pc = "done" /\ log.fault = "none"

\* "crate::calendar::refresh_calendars(&enabled_uids).await" is over, however
\* it returned
RefreshCalendarsReturned == pc = "done"

\* refresh_calendars has returned: tokio::time::sleep(500 ms) begins
RefreshSleep ==
    /\ refresh_pc = "refresh_calendars"
    /\ RefreshCalendarsReturned
    /\ refresh_pc' = "sleep"
    /\ UNCHANGED <<ignored, popupVars, pureVars, engineVars, appVars, watchVars>>

\* the pause is over: get_upcoming_meetings(&enabled_uids, upcoming_count + 1, ..)
\* is called
RefreshThenFetch ==
    /\ refresh_pc = "sleep"
    /\ refresh_pc' = "get_upcoming_meetings"
    /\ UNCHANGED <<ignored, popupVars, pureVars, engineVars, appVars, watchVars>>

\* get_upcoming_meetings returns and the task's future is ready:
\* update(Message::MeetingsUpdated(meetings)); the chained
\* Task::done(Message::RefreshCompleted) comes next
RefreshMeetingsUpdated ==
    /\ refresh_pc = "get_upcoming_meetings"
    /\ \E reachable \in BOOLEAN : Fetched(call, reachable)
    /\ refresh_pc' = "refresh_completed"
    /\ UNCHANGED <<ignored, popupVars, pureVars, engineVars, watchVars, config,
                   available_calendars, is_refreshing, tasks>>

\* update(Message::RefreshCompleted)
UpdateRefreshCompleted ==
    /\ refresh_pc = "refresh_completed"
    /\ is_refreshing' = FALSE
    /\ refresh_pc' = "none"
    /\ UNCHANGED <<ignored, popupVars, pureVars, engineVars, watchVars, config,
                   available_calendars, upcoming_meetings, has_loaded_meetings,
                   tasks, app_queried>>

\* the steps of refresh_calendars on the bus
RefreshEngineStep ==
    \/ SessionFails
    \/ SessionOk
    \/ EnumerateFails
    \/ EnumerateOk
    \/ FactoryFails
    \/ FactoryOk
    \/ RefreshSourceFails
    \/ RefreshSourceOk
    \/ RefreshFinish

NextRefresh ==
    \/ \E origin \in RefreshOrigins : UpdateRefreshCalendars(origin)
    \/ SessionFails
    \/ SessionOk
    \/ EnumerateFails
    \/ EnumerateOk
    \/ FactoryFails
    \/ FactoryOk
    \/ RefreshSourceFails
    \/ RefreshSourceOk
    \/ RefreshFinish
    \/ RefreshSleep
    \/ RefreshThenFetch
    \/ RefreshMeetingsUpdated
    \/ UpdateRefreshCompleted
    \/ \E enabled \in BOOLEAN : SetAutoRefresh(enabled)

SpecRefresh == InitRefresh /\ [][NextRefresh]_vars

\* each remote call eventually returns, the pause ends, the runtime hands
\* every message to update
FairRefresh ==
    /\ WF_vars(RefreshEngineStep)
    /\ WF_vars(RefreshSleep)
    /\ WF_vars(RefreshThenFetch)
    /\ WF_vars(RefreshMeetingsUpdated)
    /\ WF_vars(UpdateRefreshCompleted)

SpecRefreshFair == SpecRefresh /\ FairRefresh

----------------------------------------------------------------------------
\* The popup (app.rs): TogglePopup, PopupClosed, Navigate

\* Id::unique() is called at most this many times
MaxPopups == 3

\* the buttons of each page that send Navigate
NavigateTargets(page) ==
    CASE page = "Main" -> {"Settings"}
      [] page = "Settings" -> {"Main", "Calendars", "EventsToShowSettings",
                               "RefreshSettings", "PanelDisplaySettings",
                               "PopupDisplaySettings", "KeyboardShortcut", "About"}
      [] page = "PanelDisplaySettings" -> {"Settings", "PanelJoinButtonSettings"}
      [] page = "PopupDisplaySettings" -> {"Settings", "PopupJoinButtonSettings"}
      [] page = "PanelJoinButtonSettings" -> {"PanelDisplaySettings"}
      [] page = "PopupJoinButtonSettings" -> {"PopupDisplaySettings"}
      [] page = "EventsToShowSettings" -> {"Settings", "EmailSettings"}
      [] page = "EmailSettings" -> {"EventsToShowSettings"}
      [] OTHER -> {"Settings"}

InitPopup ==
    /\ pureIn = PureIdle
    /\ pureOut = PureNoResult
    /\ EngineIdle
    /\ AppIdle
    /\ WatchIdle
    /\ UiIdle

\* update(Message::TogglePopup): an open popup is taken and destroyed (the
\* runtime may or may not report that popup as closed afterwards), otherwise a
\* popup with a new id is opened on current_page
TogglePopup ==
    /\ IF popup # NoPopup
       THEN /\ popup' = NoPopup
            /\ \E reported \in BOOLEAN :
                  close_requests' = IF reported THEN close_requests \cup {popup}
                                    ELSE close_requests
            /\ UNCHANGED <<next_id, opened_on>>
       ELSE /\ next_id <= MaxPopups
            /\ popup' = next_id
            /\ next_id' = next_id + 1
            /\ opened_on' = current_page
            /\ UNCHANGED close_requests
    /\ UNCHANGED <<current_page, refreshVars, pureVars, engineVars, appVars, watchVars>>

\* the compositor dismisses the open popup: on_close_requested(id) will send
\* PopupClosed(id)
CloseRequested ==
    /\ popup # NoPopup
    /\ popup \notin close_requests
    /\ close_requests' = close_requests \cup {popup}
    /\ UNCHANGED <<popup, current_page, next_id, opened_on, refreshVars, pureVars,
                   engineVars, appVars, watchVars>>

\* update(Message::PopupClosed(id))
PopupClosed(id) ==
    /\ id \in close_requests
    /\ close_requests' = close_requests \ {id}
    /\ IF popup = id
       THEN /\ popup' = NoPopup
            /\ current_page' = "Main"
       ELSE UNCHANGED <<popup, current_page>>
    /\ UNCHANGED <<next_id, opened_on, refreshVars, pureVars, engineVars, appVars,
                   watchVars>>

\* update(Message::Navigate(page)), sent by a button of the page on show
Navigate(page) ==
    /\ popup # NoPopup
    /\ page \in NavigateTargets(current_page)
    /\ current_page' = page
    /\ UNCHANGED <<popup, next_id, close_requests, opened_on, refreshVars, pureVars,
                   engineVars, appVars, watchVars>>

PopupPages ==
    {"Main", "Settings", "Calendars", "RefreshSettings", "EventsToShowSettings",
     "EmailSettings", "PanelDisplaySettings", "PopupDisplaySettings",
     "PanelJoinButtonSettings", "PopupJoinButtonSettings", "KeyboardShortcut",
     "About"}

NextPopup ==
    \/ TogglePopup
    \/ CloseRequested
    \/ \E id \in 1..MaxPopups : PopupClosed(id)
    \/ \E page \in PopupPages : Navigate(page)

SpecPopup == InitPopup /\ [][NextPopup]_vars

----------------------------------------------------------------------------
\* C1: should_include_meeting(start, end, now, query_start) is true exactly
\* when start < end and (start > now or (start <= now and start > query_start
\* and end > now)); so a meeting ending at now is excluded, one starting at now
\* with end > now is included (when now > query_start), and one starting at
\* query_start (not in the future) is excluded.
C1_ShouldIncludeIff ==
    (pureIn.fn = "should_include_meeting" /\ pureOut.done) =>
        LET s == pureIn.start
            e == pureIn.end
            n == pureIn.now
            q == pureIn.query_start
        IN  /\ pureOut.value <=>
                  (s < e /\ (s > n \/ (s <= n /\ s > q /\ e > n)))
            /\ (e = n => ~pureOut.value)
            /\ (s = n /\ e > n /\ q < n => pureOut.value)
            /\ (s = q /\ s <= n => ~pureOut.value)

\* the boundary case was evaluated: a meeting starting exactly at query_start,
\* still running, was given to the function and refused
C1_Witness ==
    /\ pureIn.fn = "should_include_meeting"
    /\ pureOut.done
    /\ pureIn.start = pureIn.query_start
    /\ pureIn.start < pureIn.now
    /\ pureIn.end > pureIn.now
    /\ ~pureOut.value

----------------------------------------------------------------------------
\* Claims about one call into the engine

\* get_upcoming_meetings ran its loop to the end and returned
FetchReturned ==
    pc = "done" /\ call.op = "get_upcoming_meetings" /\ log.fault = "none"

\* the sources the call has to go through, as the arguments select them
Selected ==
    IF call.enabled_uids # {} THEN CalendarUids \cap call.enabled_uids
    ELSE CalendarUids

\* the meetings of the replies the sources gave, as get_meetings_from_dbus
\* builds them
Surviving == UNION {Range(ReplyMeetings(sv.reply, sv.uid, localZone, sv.now)) :
                      sv \in log.served}

\* C2: the list get_upcoming_meetings returns is non-decreasing in start, has
\* at most max(limit, 1) elements (exactly that many when enough occurrences
\* survive the filter), holds only surviving occurrences, and no surviving
\* occurrence left out of it starts earlier than one that is in it.
C2_SortedAndTruncated ==
    FetchReturned =>
        LET cap == IF call.limit > 1 THEN call.limit ELSE 1
        IN  /\ \A i, j \in 1..Len(result) : i < j => result[i].start <= result[j].start
            /\ Len(result) <= cap
            /\ Len(result) = (IF Len(all_meetings) < cap THEN Len(all_meetings) ELSE cap)
            /\ \A m \in Range(result) : Count(result, m) <= Count(all_meetings, m)
            /\ \A m \in Range(all_meetings) :
                  Count(all_meetings, m) > Count(result, m) =>
                      \A r \in Range(result) : r.start <= m.start
            /\ Range(all_meetings) = Surviving

\* a call with limit 0 over several surviving occurrences returned just one
C2_Witness ==
    /\ FetchReturned
    /\ call.limit = 0
    /\ Len(all_meetings) >= 3
    /\ Len(result) = 1
    /\ \E m \in Range(all_meetings) : m.start > result[1].start

\* C3: a source that fails to open, to give a proxy or to answer the query is
\* the only one skipped: when the call returns, every selected source was
\* visited, each one failed or answered, and every occurrence of every answer
\* that passes the filter is among the candidates, as often as it was built.
C3_FailureSkipsOnlyThatSource ==
    FetchReturned =>
        /\ Range(log.visited) = Selected
        /\ Len(log.visited) = Cardinality(Selected)
        /\ \A u \in Selected : (u \in log.failed) # (\E sv \in log.served : sv.uid = u)
        /\ \A sv \in log.served :
              LET ms == ReplyMeetings(sv.reply, sv.uid, localZone, sv.now)
              IN  \A m \in Range(ms) : Count(all_meetings, m) >= Count(ms, m)

\* the first source of the loop failed, the two after it answered and their
\* occurrences were returned
C3_Witness ==
    /\ FetchReturned
    /\ Len(log.visited) = 3
    /\ log.visited[1] \in log.failed
    /\ log.visited[2] \notin log.failed
    /\ log.visited[3] \notin log.failed
    /\ \E m \in Range(result) : m.calendar_uid = log.visited[3]

\* the call returned because the service could not be reached
Unreachable == pc = "done" /\ log.fault \in {"session", "enumerate", "factory"}

\* C4 as stated: whenever the session bus, the source enumeration or the
\* calendar factory proxy fails, get_available_calendars and
\* get_upcoming_meetings return an empty list and refresh_calendars calls no
\* Refresh.
C4_Original ==
    Unreachable =>
        /\ call.op \in {"get_available_calendars", "get_upcoming_meetings"}
              => result = <<>>
        /\ call.op = "refresh_calendars" => log.refreshed = {}

\* C4, amended: a failing session bus or source enumeration makes
\* get_available_calendars and get_upcoming_meetings return an empty list; a
\* failing calendar factory proxy makes get_upcoming_meetings return an empty
\* list, and get_available_calendars return every discovered calendar, sorted
\* by display name, none with a last_synced; refresh_calendars calls no Refresh
\* in any of the three cases; no source is opened.
C4_UnreachableIsEmpty ==
    Unreachable =>
        /\ call.op = "get_upcoming_meetings" => result = <<>>
        /\ (call.op = "get_available_calendars" /\ log.fault # "factory")
              => result = <<>>
        /\ (call.op = "get_available_calendars" /\ log.fault = "factory") =>
              /\ {c.uid : c \in Range(result)} = CalendarUids
              /\ Len(result) = Cardinality(CalendarUids)
              /\ \A c \in Range(result) : ~c.last_synced
              /\ \A i, j \in 1..Len(result) :
                    i < j => NameRank(result[i].display_name)
                                 <= NameRank(result[j].display_name)
        /\ log.refreshed = {}
        /\ log.opened = {}
        /\ watchers = {}

\* get_available_calendars returned the calendars although the factory proxy
\* could not be created
C4_Witness ==
    /\ Unreachable
    /\ call.op = "get_available_calendars"
    /\ log.fault = "factory"
    /\ Len(result) = 3

\* C5: with a non-empty enabled_uids only sources in it are opened, queried,
\* refreshed or watched, and every returned Meeting belongs to one of them;
\* with an empty enabled_uids a call that runs its loop to the end goes through
\* every discovered source that has a [Calendar] section; a source without
\* that section is never opened.
C5_OnlyEnabledSources ==
    LET touched == log.opened \cup log.queried \cup log.refreshed \cup watchers
                       \cup Range(calendar_info)
    IN  /\ touched \subseteq CalendarUids
        /\ call.enabled_uids # {} =>
              /\ touched \subseteq call.enabled_uids
              /\ \A m \in Range(result) :
                    call.op = "get_upcoming_meetings"
                        => m.calendar_uid \in call.enabled_uids
              /\ \A m \in Range(all_meetings) : m.calendar_uid \in call.enabled_uids
        /\ (call.op \in {"get_upcoming_meetings", "refresh_calendars",
                         "watch_calendar_changes"}
               /\ pc \in {"done", "watching"} /\ log.fault = "none")
              => log.opened = Selected

\* a fetch restricted to two of the three calendars queried both and returned
\* a meeting
C5_Witness ==
    /\ FetchReturned
    /\ call.enabled_uids = {"work", "bday"}
    /\ log.queried = {"work", "bday"}
    /\ result # <<>>

\* C6: no fetch the applet starts (at startup, on the 60-second poll, after
\* ToggleCalendar, SetUpcomingEventsCount, RefreshCalendars, CalendarChanged or
\* SystemResumed) queries a source whose backend is contacts, weather or
\* birthdays, also when the enabled list of the configuration is empty: in
\* every state the fetch that finished last has queried meeting sources only.
C6_NonMeetingSourcesNeverQueried ==
    \A uid \in app_queried : is_meeting_source(MakeCalendarInfo(uid))

\* C7: the returned list never holds two meetings for the same occurrence:
\* no two of its entries have the same uid, or the same master UID and the
\* same start.
C7_Deduplicated ==
    FetchReturned =>
        \A i, j \in 1..Len(result) :
            i < j =>
                /\ result[i].uid # result[j].uid
                /\ ~(result[i].uid.base = result[j].uid.base
                       /\ result[i].start = result[j].start)

\* every occurrence of the record's rule, without the limit of the expansion:
\* the indices up to the end of the window of a fetch at `now`
RuleOccurrences(rec, now) ==
    LET last == ((now + QueryAhead) - rec.dtstart) \div rec.rrule.interval
        ks == {k \in 0..last : rec.rrule.count = Unbounded \/ k < rec.rrule.count}
    IN  {rec.dtstart + (k * rec.rrule.interval) : k \in ks} \ rec.exdates

\* C8: for a recurring master, every occurrence of its rule that starts in the
\* fetch window, is not in EXDATE and is future or in progress is a candidate,
\* ending at its start plus the master's duration, wherever the series began;
\* no record yields more than 100 candidates.
C8_AllOccurrencesInWindow ==
    FetchReturned =>
        \A sv \in log.served : \A rec \in Range(sv.reply) :
            (rec.rrule # NoRule /\ rec.recurrence_id = NoTime) =>
                /\ \A at \in RuleOccurrences(rec, sv.now) :
                      (/\ at > sv.now - QueryBack
                       /\ at <= sv.now + QueryAhead
                       /\ should_include_meeting(at, at + (rec.dtend - rec.dtstart),
                                                 sv.now, sv.now - QueryBack))
                          => \E m \in Range(all_meetings) :
                                /\ m.start = at
                                /\ m.end = at + (rec.dtend - rec.dtstart)
                                /\ m.calendar_uid = sv.uid
                                /\ m.uid.base = rec.uid
                /\ Cardinality({i \in 1..Len(all_meetings) :
                                   /\ all_meetings[i].uid.base = rec.uid
                                   /\ all_meetings[i].uid.suffixed
                                   /\ all_meetings[i].calendar_uid = sv.uid})
                       <= ExpandLimit

\* C9: a record with a RECURRENCE-ID whose own start passes the filter yields
\* exactly one Meeting, from its own DTSTART and DTEND, with the UID unchanged,
\* whether or not it also has an RRULE.
C9_RecurrenceIdBypassesExpansion ==
    FetchReturned =>
        \A sv \in log.served : \A rec \in Range(sv.reply) :
            (/\ rec.recurrence_id # NoTime
             /\ should_include_meeting(rec.dtstart, rec.dtend, sv.now,
                                       sv.now - QueryBack))
                => LET own == [uid |-> [base |-> rec.uid, suffixed |-> FALSE,
                                        stamp |-> 0],
                               start |-> rec.dtstart, end |-> rec.dtend,
                               calendar_uid |-> sv.uid]
                   IN  /\ RecordMeetings(rec, sv.uid, localZone, sv.now) = <<own>>
                       /\ own \in Range(all_meetings)

\* C10: a Meeting from a record with an RRULE has the UID suffixed with its
\* formatted local start, a Meeting from a record without RRULE has the UID
\* itself, and two occurrences of one record that start at different instants
\* never have the same uid.
C10_OccurrenceUids ==
    FetchReturned =>
        \A sv \in log.served : \A rec \in Range(sv.reply) :
            LET ms == RecordMeetings(rec, sv.uid, localZone, sv.now)
            IN  /\ \A m \in Range(ms) :
                      /\ m \in Range(all_meetings)
                      /\ m.uid.base = rec.uid
                      /\ m.uid.suffixed = (rec.rrule # NoRule)
                      /\ m.uid.suffixed => m.uid.stamp = FormatLocal(localZone, m.start)
                /\ \A i, j \in 1..Len(ms) :
                      ms[i].start # ms[j].start => ms[i].uid # ms[j].uid

\* C11: a record with a missing or malformed UID or DTSTART contributes no
\* Meeting to the result of get_upcoming_meetings, so no returned Meeting has
\* an empty uid, and the other records of the same source are still processed.
C11_MalformedRecordsDropped ==
    FetchReturned =>
        /\ \A i \in 1..Len(result) : result[i].uid.base # ""
        /\ \A sv \in log.served :
              \A i \in 1..Len(sv.reply) :
                  LET rec == sv.reply[i]
                  IN  (rec.parses /\ rec.uid # "" /\ rec.dtstart # NoTime) =>
                          Range(RecordMeetings(rec, sv.uid, localZone, sv.now))
                              \subseteq Range(all_meetings)

\* the first ATTENDEE entry of the call whose address is one of the user's
\* addresses ignoring case, 0 when there is none
FirstUserEntry ==
    LET user == UserEmails(pureIn.additional_emails, pureIn.cal_email)
        lower == {ToLower(user[i]) : i \in 1..Len(user)}
        IsUser(i) == /\ pureIn.entries[i].prop = "ATTENDEE"
                     /\ AttendeeEmail(pureIn.entries[i]) # NoEmail
                     /\ AttendeeEmail(pureIn.entries[i]) \in lower
        hits == {i \in 1..Len(pureIn.entries) : IsUser(i)}
    IN  IF hits = {} THEN 0 ELSE CHOOSE i \in hits : \A j \in hits : i <= j

\* C12: the attendance status is decided by the first ATTENDEE entry whose
\* address (EMAIL parameter, else the mailto: value) equals one of the user's
\* addresses ignoring case: it is that entry's PARTSTAT mapped to Accepted,
\* Tentative, Declined or NeedsAction, None when that PARTSTAT is unknown or
\* absent, whatever later entries hold, and None when no entry matches.
C12_FirstMatchDecides ==
    (pureIn.fn = "attendance_status" /\ pureOut.done) =>
        pureOut.value = IF FirstUserEntry = 0 THEN "None"
                        ELSE StatusOf(pureIn.entries[FirstUserEntry].partstat)

\* C13: when no additional address is non-blank and the calendar has no
\* non-empty address, the attendance status is None whatever the ATTENDEE
\* entries hold.
C13_NoUserEmailsIsNone ==
    (/\ pureIn.fn = "attendance_status"
     /\ pureOut.done
     /\ \A i \in 1..Len(pureIn.additional_emails) : Blank(pureIn.additional_emails[i])
     /\ pureIn.cal_email \in {NoEmail, ""})
        => pureOut.value = "None"

C13_Witness ==
    /\ pureIn.fn = "attendance_status"
    /\ pureOut.done
    /\ pureIn.additional_emails = <<" ">>
    /\ pureIn.cal_email = ""
    /\ \E i \in 1..Len(pureIn.entries) :
          /\ pureIn.entries[i].prop = "ATTENDEE"
          /\ pureIn.entries[i].email_param = ""
          /\ pureIn.entries[i].partstat = "ACCEPTED"
    /\ pureOut.value = "None"

\* the valid patterns of the call's list, in list order
ValidPatterns ==
    LET Valid(p) == p.valid
    IN  SelectSeq(pureIn.patterns, Valid)

\* the valid patterns that match somewhere in a field
MatchedIn(text) ==
    IF text = NoText THEN {}
    ELSE {i \in 1..Len(ValidPatterns) : Find(ValidPatterns[i], text).found}

\* the substring the first matching pattern in list order finds in a field
DecidedIn(text) ==
    LET first == CHOOSE i \in MatchedIn(text) : \A j \in MatchedIn(text) : i <= j
        m == Find(ValidPatterns[first], text)
    IN  SubSeq(text, m.start, m.end)

\* C14: extract_meeting_url returns a match found in location whenever a valid
\* pattern matches location, even if description matches too; a match from
\* description only when no valid pattern matches location; None when the list
\* is empty or nothing matches; within a field the first pattern in list order
\* that matches decides the substring.
C14_LocationBeforeDescription ==
    (pureIn.fn = "extract_meeting_url" /\ pureOut.done) =>
        pureOut.value =
            IF MatchedIn(pureIn.meeting.location) # {}
            THEN DecidedIn(pureIn.meeting.location)
            ELSE IF MatchedIn(pureIn.meeting.description) # {}
            THEN DecidedIn(pureIn.meeting.description)
            ELSE NoText

C14_Witness ==
    /\ pureIn.fn = "extract_meeting_url"
    /\ pureOut.done
    /\ pureIn.meeting = [location |-> T_room_and_meet, description |-> T_meet_other]
    /\ pureIn.patterns = <<P_scheme, P_meet>>
    /\ pureOut.value = <<"https://">>

\* C15: invalid patterns are discarded: extract_meeting_url and
\* get_physical_location return what they return for the valid patterns of the
\* list alone, in the same order, and a list of invalid patterns only behaves
\* as the empty list.
C15_InvalidPatternsDiscarded ==
    (pureIn.fn \in {"extract_meeting_url", "get_physical_location"} /\ pureOut.done) =>
        LET Same(patterns) ==
                IF pureIn.fn = "extract_meeting_url"
                THEN pureOut.value = extract_meeting_url(pureIn.meeting, patterns)
                ELSE pureOut.value = get_physical_location(pureIn.meeting, patterns)
        IN  /\ Same(ValidPatterns)
            /\ ValidPatterns = <<>> => Same(<<>>)

C15_Witness ==
    /\ pureIn.fn = "extract_meeting_url"
    /\ pureOut.done
    /\ pureIn.meeting.location = T_meet
    /\ pureIn.patterns = <<P_invalid, P_meet>>
    /\ pureOut.value = T_meet

\* a valid pattern of the call's list whose match is the whole text
FullSpanMatch(text) ==
    \E i \in 1..Len(ValidPatterns) :
        LET m == Find(ValidPatterns[i], text)
        IN  m.found /\ m.start = 1 /\ m.end = Len(text)

\* C16 as stated: get_physical_location returns the location verbatim exactly
\* when it is non-empty after trimming, does not begin with http:// or
\* https://, and no pattern matches it over its full span; None otherwise.
C16_Original ==
    (pureIn.fn = "get_physical_location" /\ pureOut.done) =>
        LET location == pureIn.meeting.location
        IN  pureOut.value =
                IF /\ location # NoText
                   /\ Trim(location) # <<>>
                   /\ Head(location) \notin {"http://", "https://"}
                   /\ ~FullSpanMatch(location)
                THEN location
                ELSE NoText

\* C16: get_physical_location returns the trimmed location exactly when the
\* trimmed location is non-empty, does not begin with http:// or https://, and
\* no valid pattern matches it over its full span; None otherwise. A pattern
\* matching only part of it does not disqualify it.
C16_PhysicalLocation ==
    (pureIn.fn = "get_physical_location" /\ pureOut.done) =>
        LET location == pureIn.meeting.location
        IN  pureOut.value =
                IF /\ location # NoText
                   /\ Trim(location) # <<>>
                   /\ Head(Trim(location)) \notin {"http://", "https://"}
                   /\ ~FullSpanMatch(Trim(location))
                THEN Trim(location)
                ELSE NoText

C16_Witness ==
    /\ pureIn.fn = "get_physical_location"
    /\ pureOut.done
    /\ pureIn.meeting.location = T_room_and_meet
    /\ pureIn.patterns = <<P_meet>>
    /\ pureOut.value = T_room_and_meet

\* C17: parse_ical_timezone resolves an identifier by the first of three
\* tiers that knows it: the zone database compared ignoring case, the CLDR
\* table of vendor display names, the curated abbreviation table.
\* "America/Los_Angeles", "america/los_angeles" and "Pacific Standard Time"
\* give the same zone; an identifier no tier knows, among them "CST", "IST"
\* and the empty string, gives None.
C17_TimezoneTiers ==
    (pureIn.fn = "parse_ical_timezone" /\ pureOut.done) =>
        LET id == pureIn.tz_str
            in_database == \E name \in IanaNames : Canonical(id) = name
            in_cldr == win_zone_to_iana(Normalized(id)) # NoZone
            in_abbreviations == abbrev_iana(id) # NoZone
        IN  /\ in_database =>
                  pureOut.value = (IF Canonical(id) = "Etc/UTC" THEN "UTC"
                                   ELSE Canonical(id))
            /\ (~in_database /\ in_cldr) =>
                  pureOut.value = win_zone_to_iana(Normalized(id))
            /\ (~in_database /\ ~in_cldr /\ in_abbreviations) =>
                  pureOut.value = abbrev_iana(id)
            /\ (~in_database /\ ~in_cldr /\ ~in_abbreviations) =>
                  pureOut.value = NoZone
            /\ id \in {"America/Los_Angeles", "america/los_angeles",
                        "Pacific Standard Time"} =>
                  pureOut.value = "America/Los_Angeles"
            /\ id \in {"CST", "IST", ""} => pureOut.value = NoZone

C17_Witness ==
    /\ pureIn.fn = "parse_ical_timezone"
    /\ pureOut.done
    /\ pureIn.tz_str = "america/los_angeles"
    /\ pureOut.value = "America/Los_Angeles"

\* C18: while the subscription is alive, every PropertiesChanged signal on a
\* watched calendar is followed by a CalendarChanged message handled later
\* than the signal, also when the try_send for that signal found the channel
\* full (the forwarding loop and the runtime keep taking what is queued).
C18_SignalLeadsToCalendarChanged ==
    (owed /\ receiver["calendar"]) ~> (~owed \/ ~receiver["calendar"])

C18_Witness ==
    /\ "calendar" \in full_drops
    /\ receiver["calendar"]
    /\ ~owed
    /\ chan["calendar"] = 0
    /\ outbox["calendar"] = 0
    /\ fwd_pc["calendar"] = "recv"
    /\ \A w \in CalendarWatchers : w_pc[w] = "waiting"

C20_WatcherNeverStalls ==
    /\ \A c \in Channels : chan[c] <= Capacity(c)
    /\ \A w \in Watchers :
          w_pc[w] = "sending" => TrySendReady(chan[ChannelOf(w)], Capacity(ChannelOf(w)))

C20_Witness ==
    /\ chan["calendar"] = CalendarChannelCapacity
    /\ "calendar" \in full_drops
    /\ w_sig["work"] = "PropertiesChanged"
    /\ w_pc["work"] = "waiting"

\* C21: background watchers stop when cancelled: once the subscription that
\* owns watch_calendar_changes or watch_system_resume is dropped or recreated
\* after a configuration change, none of the per-calendar, sleep or unlock
\* listeners it spawned is still running, so no listener of a subscription that
\* no longer exists is left over.
C21_ListenersStopWithSubscription ==
    /\ \A w \in Watchers : ~receiver[ChannelOf(w)] => w_pc[w] = "stopped"
    /\ \A c \in Channels : detached[c] = 0

\* the meeting sources on the bus, and those of them a configuration enables
\* (an empty list enables all)
BusMeetingSources == {u \in CalendarUids : is_meeting_source(MakeCalendarInfo(u))}
EnabledMeetingSources(cfg) ==
    IF cfg.enabled_calendar_uids = {} THEN BusMeetingSources
    ELSE cfg.enabled_calendar_uids \cap BusMeetingSources

\* where the refresh task stands, seen in one state
RefreshStages ==
    /\ (refresh_pc = "refresh_calendars" /\ pc = "done" /\ log.fault = "none") =>
          (/\ EnabledMeetingSources(config) \subseteq Range(log.visited)
           /\ log.refreshed = Range(log.visited) \ log.failed)
    /\ (refresh_pc \in {"sleep", "get_upcoming_meetings", "refresh_completed"}) =>
          (is_refreshing /\ pc = "done")

\* the order of the stages, seen in one step
RefreshOrder ==
    /\ (refresh_pc' # refresh_pc /\ refresh_pc' = "refresh_calendars") =>
          (~is_refreshing /\ is_refreshing')
    /\ (refresh_pc' # refresh_pc /\ refresh_pc' = "sleep") =>
          (refresh_pc = "refresh_calendars" /\ pc = "done")
    /\ (refresh_pc' # refresh_pc /\ refresh_pc' = "get_upcoming_meetings") =>
          (refresh_pc = "sleep")
    /\ (refresh_pc' # refresh_pc /\ refresh_pc' = "refresh_completed") =>
          (refresh_pc = "get_upcoming_meetings" /\ has_loaded_meetings'
           /\ is_refreshing')
    /\ (upcoming_meetings' # upcoming_meetings \/ app_queried' # app_queried) =>
          (refresh_pc = "get_upcoming_meetings")
    /\ (log'.refreshed # log.refreshed) =>
          (refresh_pc \in {"none", "refresh_calendars"}
           /\ refresh_pc' = "refresh_calendars")
    /\ (is_refreshing /\ ~is_refreshing') => (refresh_pc = "refresh_completed")

\* C22: on RefreshCalendars while no refresh is in progress, Refresh is first
\* requested from every enabled meeting source (the outcome of the call is not
\* looked at), then the task pauses, then it fetches the meetings;
\* MeetingsUpdated is handled before RefreshCompleted, and a source whose open
\* or Refresh call fails does not keep the remaining sources from being
\* refreshed.
C22_RefreshThenPauseThenFetch == []RefreshStages /\ [][RefreshOrder]_vars

\* a refresh in which one source failed and another was refreshed has stored
\* its meetings and is about to complete
C22_Witness ==
    /\ refresh_pc = "refresh_completed"
    /\ log.fault = "none"
    /\ log.failed # {}
    /\ log.refreshed \cap EnabledMeetingSources(config) # {}
    /\ Len(log.visited) > 1
    /\ log.visited[1] \in log.failed
    /\ upcoming_meetings # <<>>

\* the clock readings the source of a meeting was queried at
QueriedAt(m) == {s.now : s \in {x \in log.served : x.uid = m.calendar_uid}}

\* C23: every Meeting returned by get_upcoming_meetings lies in the fetch
\* window and is well ordered: start < end, start is later than now minus 30
\* minutes and no later than now plus 30 days (now being the reading the query
\* of its source was built from), occurrences expanded from an RRULE included.
C23_ReturnedMeetingsInWindow ==
    (pc = "done" /\ call.op = "get_upcoming_meetings") =>
        \A i \in 1..Len(result) :
            /\ result[i].start < result[i].end
            /\ \E now \in QueriedAt(result[i]) :
                  /\ result[i].start > now - QueryBack
                  /\ result[i].start <= now + QueryAhead

\* the sources of a reply that have a UID and a [Calendar] section
CalendarSections(objects) ==
    {o \in Range(objects) : o.uid # "" /\ HasSection(o.data, "Calendar")}

\* C24: get_available_calendars returns exactly the sources that have a UID
\* and whose data block contains a [Calendar] section, one CalendarInfo per
\* source, sorted ascending by display_name, display_name being the
\* DisplayName value of the block or the uid when DisplayName is absent; a
\* Revision that cannot be read leaves last_synced empty and the source in.
C24_ExactlyCalendarSources ==
    (pureIn.fn = "get_calendars_from_dbus" /\ pureOut.done) =>
        LET out == pureOut.value
            expected == CalendarSections(pureIn.objects)
        IN  /\ {out[i].uid : i \in 1..Len(out)} = {o.uid : o \in expected}
            /\ Len(out) = Cardinality(expected)
            /\ \A i \in 1..Len(out) - 1 :
                  NameRank(out[i].display_name) <= NameRank(out[i + 1].display_name)
            /\ \A i \in 1..Len(out) : \A o \in expected :
                  o.uid = out[i].uid =>
                      /\ out[i].display_name =
                             (IF parse_display_name(o.data) = NoName THEN o.uid
                              ELSE parse_display_name(o.data))
                      /\ out[i].last_synced = (o.uid \in pureIn.readable)

\* view_calendars_page: whether the toggler of a calendar is shown as on
is_enabled(cfg, cals, uid) ==
    /\ uid \in MeetingSourceUids(cals)
    /\ (cfg.enabled_calendar_uids = {} \/ uid \in cfg.enabled_calendar_uids)

\* ToggleCalendar(uid) handled for an enabled calendar leaves it disabled
ToggleDisables(uid) ==
    (ToggleCalendar(uid) /\ is_enabled(config, available_calendars, uid)) =>
        /\ ~is_enabled(config', available_calendars', uid)
        /\ \A t \in tasks' \ tasks :
              t.kind = "fetch" => uid \notin SourcesQueried(t.enabled_uids)

\* C25: after ToggleCalendar(uid) is handled for a calendar that was enabled,
\* the calendar is disabled: it is shown as off and the fetch the handler
\* starts does not query it, also when uid was the only enabled calendar and
\* when the enabled list was empty (all enabled) before the toggle.
C25_ToggleOffDisables == [][\A uid \in CalendarUids : ToggleDisables(uid)]_vars

\* a refresh task is started in this step
RefreshTaskStarts == pc' = "connect" /\ (pc # "connect" \/ call' # call \/ log' # log)

\* what a step may do to is_refreshing and to the refresh task
OneRefresh ==
    /\ (ignored' # ignored) =>
          (is_refreshing /\ UNCHANGED <<appVars, engineVars, refresh_pc, popupVars,
                                        pureVars, watchVars>>)
    /\ (is_refreshing /\ (RefreshTaskStarts \/ refresh_pc' = "none")) =>
          (refresh_pc = "refresh_completed" /\ ~RefreshTaskStarts)
    /\ (~is_refreshing /\ is_refreshing') =>
          (refresh_pc = "none" /\ refresh_pc' = "refresh_calendars" /\ RefreshTaskStarts)
    /\ (is_refreshing /\ ~is_refreshing') =>
          (refresh_pc = "refresh_completed" /\ refresh_pc' = "none")
    /\ (refresh_pc' = "none" /\ refresh_pc # "none") => ~is_refreshing'

\* C26: at most one manual refresh is in flight: while is_refreshing is true
\* a RefreshCalendars message starts no task and changes no state, and
\* is_refreshing becomes true only in the RefreshCalendars handler and false
\* only in the RefreshCompleted handler.
C26_AtMostOneRefresh ==
    [](is_refreshing <=> refresh_pc # "none") /\ [][OneRefresh]_vars

\* a RefreshCalendars message was handled while the refresh task was running,
\* and the task went on to store its meetings
C26_Witness ==
    /\ ignored > 0
    /\ is_refreshing
    /\ refresh_pc = "refresh_completed"
    /\ log.refreshed # {}

\* C27: every refresh that is started completes: whenever is_refreshing
\* becomes true, RefreshCompleted is eventually handled and is_refreshing is
\* false again, also when the session bus is unreachable or every source
\* fails (each remote call returning eventually).
C27_RefreshCompletes == is_refreshing ~> ~is_refreshing

\* a refresh whose refresh_calendars could not reach the bus and whose fetch
\* returned nothing is about to complete
C27_Witness ==
    /\ is_refreshing
    /\ refresh_pc = "refresh_completed"
    /\ log.fault = "session"
    /\ upcoming_meetings = <<>>
    /\ has_loaded_meetings

\* a refresh in which every source failed is about to complete
C27_WitnessAllFailed ==
    /\ is_refreshing
    /\ refresh_pc = "refresh_completed"
    /\ log.fault = "none"
    /\ log.visited # <<>>
    /\ log.failed = Range(log.visited)

\* C28: whenever the popup is opened it shows the Main page: every way of
\* closing it (TogglePopup while it is open, or a PopupClosed message for it)
\* leaves current_page = Main before the next open, and a PopupClosed message
\* whose id is not the current popup's changes neither popup nor current_page.
C28_PopupOpensOnMain ==
    /\ [](opened_on \in {"none", "Main"})
    /\ [](popup = NoPopup => current_page = "Main")
    /\ [][\A id \in 1..MaxPopups :
             (PopupClosed(id) /\ popup # id) => UNCHANGED <<popup, current_page>>]_vars

\* the parameters a fetch started now would be given
CurrentParameters(t) ==
    /\ t.limit = config.upcoming_events_count + 1
    /\ t.enabled_uids \in {config.enabled_calendar_uids,
                            enabled_meeting_source_uids(config, available_calendars)}

\* a fetch stores its result in this step although the fetch started last has
\* stored its result already
StaleOverwrite(t) ==
    /\ t.kind \in {"fetch", "refresh_fetch"}
    /\ MeetingsUpdated \/ RefreshFetched
    /\ t \notin tasks'
    /\ upcoming_meetings' = GetUpcomingMeetings(t.enabled_uids, t.limit, TRUE)
    /\ ~t.newest
    /\ ~\E u \in tasks : u.newest
    /\ ~CurrentParameters(t)

\* C29: the meetings displayed come from the most recently started fetch: a
\* fetch started earlier with an older enabled-calendar set or limit never
\* overwrites upcoming_meetings after the result of a later-started fetch has
\* been stored.
C29_LatestFetchWins == [][\A t \in tasks : ~StaleOverwrite(t)]_vars

\* the occurrences of `held` that pass the engine's time filter and the
\* display filters
Displayable(held, cfg, now) ==
    {m \in Range(held) : /\ should_include_meeting(m.start, m.end, now, now - QueryBack)
                         /\ PassesDisplayFilters(m, cfg, now)}

\* C30: with N = upcoming_events_count, if the enabled calendars hold at
\* least N + 1 occurrences that pass both the engine's time filter and the
\* display filters, then after a fetch the popup shows the next meeting plus N
\* upcoming events: meetings hidden by the display filters do not reduce the
\* number of meetings shown.
C30_ShowsNextPlusN ==
    (pureIn.fn = "view_main_page" /\ pureOut.done) =>
        (Cardinality(Displayable(pureIn.held, pureIn.cfg, 0))
             >= pureIn.cfg.upcoming_events_count + 1
         => Len(pureOut.value) = pureIn.cfg.upcoming_events_count + 1)

====
